---- MODULE Spec2Model ----
(***************************************************************************)
(* nx_pgnet: writing a NetworkX graph to the PostGIS network schema        *)
(* (write.pgnet, write.pgnet_via_csv) and reading it back (read.pgnet).    *)
(*                                                                         *)
(* The in-memory graph is a Python object graph: dictionaries of           *)
(* dictionaries that the writer mutates in place.  The database is the     *)
(* Graphs table plus, per network name, the Nodes, Edges and Edge_Geometry *)
(* tables.                                                                 *)
(***************************************************************************)
EXTENDS Integers, Sequences, FiniteSets, TLC

\* Largest number of add_edge / add_node calls the caller used to build
\* the input graph.
MaxEdges == 2

(***************************************************************************)
(* Python values.  Every value held in a dictionary is a cell: a scalar of *)
(* a runtime type, None, or a reference to another dictionary of the heap. *)
(* Strings are numbered; v is the number of the string.                    *)
(***************************************************************************)
IntV(n) == [k |-> "int", v |-> n]
StrV(n) == [k |-> "str", v |-> n]
FloatV(n) == [k |-> "float", v |-> n]
RefV(i) == [k |-> "ref", v |-> i]
NoneV == [k |-> "none", v |-> 0]
TrueV == [k |-> "bool", v |-> 1]
FalseV == [k |-> "bool", v |-> 0]

EmptyDict == [x \in {} |-> NoneV]
Has(d, key) == key \in DOMAIN d
Put(d, key, val) == [x \in DOMAIN d \cup {key} |-> IF x = key THEN val ELSE d[x]]
Del(d, key) == [x \in DOMAIN d \ {key} |-> d[x]]
Update(d, e) == [x \in DOMAIN d \cup DOMAIN e |-> IF x \in DOMAIN e THEN e[x] ELSE d[x]]
Get(d, key) == IF key \in DOMAIN d THEN d[key] ELSE NoneV

\* Iteration order of dictionary keys (one fixed order stands for Python's).
KeyOrder == <<"1", "2", "3", "4", "u1", "u2", "u3", "u4", "u5", "u6", "u7", "u8",
              "GraphID", "Node_F_ID", "Node_T_ID", "Edge_GeomID", "EdgeID",
              "NodeID", "GeomID", "geom", "Wkt", "Wkb", "Json", "uuid", "name", "a", "b", "h">>
Keys(d) == SelectSeq(KeyOrder, LAMBDA x : x \in DOMAIN d)

(***************************************************************************)
(* Geometry (OGR).  Node keys are coordinate tuples, named "1" to "4".     *)
(***************************************************************************)
NodeOrder == <<"1", "2", "3", "4">>
NodeKeys == {NodeOrder[i] : i \in 1..Len(NodeOrder)}
Point(c) == [type |-> "POINT", c |-> <<c>>]
Line(c, d) == [type |-> "LINESTRING", c |-> <<c, d>>]
PointEmpty == [type |-> "POINT", c |-> <<>>]
LineEmpty == [type |-> "LINESTRING", c |-> <<>>]
\* The WKT texts, by string number.
WktTexts == <<Line("1", "2"), Line("1", "1"), Line("1", "3"), Line("2", "1"), Line("2", "2"),
              Line("2", "3"), Line("3", "1"), Line("3", "2"), Line("3", "3"),
              Point("1"), Point("2"), Point("3"), PointEmpty, LineEmpty, Point("4")>>
CreateGeometryFromWkt(cell) == WktTexts[cell.v]

\* write.netgeometry for a node key and for an edge (e[0], e[1], data)
NodeGeometry(key, data) ==
    IF Has(data, "Wkt") THEN CreateGeometryFromWkt(data["Wkt"]) ELSE Point(key)
EdgeGeometry(u, v, data) ==
    IF Has(data, "Wkt") THEN CreateGeometryFromWkt(data["Wkt"]) ELSE Line(u, v)

(***************************************************************************)
(* The caller's graph.  node is G.node, adj is G.adj (G[u] is adj[u]),     *)
(* heap holds the edge attribute dictionaries and, for multigraphs, the    *)
(* key dictionaries; adj[u][v] is a reference into heap.                   *)
(***************************************************************************)
UuidKeys == <<"u1", "u2", "u3", "u4", "u5", "u6", "u7", "u8">>
KeyStr(cell) == UuidKeys[cell.v]

\* Attributes the caller gives to each node.
NodeAttrs(n) ==
    CASE n = "1" -> [name |-> StrV(1)]
      [] n = "2" -> [name |-> StrV(2)]
      [] n = "3" -> [h |-> IntV(7)]
      [] OTHER -> [geom |-> StrV(3)]

\* The add_edge / add_node calls the caller may make, in this order.
Cands == <<
    [op |-> "edge", u |-> "1", v |-> "2", uuid |-> 1, attrs |-> [a |-> FloatV(1)]],
    [op |-> "edge", u |-> "2", v |-> "3", uuid |-> 2, attrs |-> [a |-> IntV(2), b |-> IntV(3)]],
    [op |-> "edge", u |-> "2", v |-> "1", uuid |-> 3, attrs |-> [a |-> StrV(4)]],
    [op |-> "edge", u |-> "1", v |-> "2", uuid |-> 4, attrs |-> [a |-> IntV(5)]],
    [op |-> "edge", u |-> "1", v |-> "3", uuid |-> 5, attrs |-> [Wkt |-> StrV(1)]],
    [op |-> "node", u |-> "3", v |-> "3", uuid |-> 6, attrs |-> EmptyDict],
    [op |-> "edge", u |-> "3", v |-> "3", uuid |-> 7, attrs |-> [a |-> IntV(7)]],
    [op |-> "edge", u |-> "4", v |-> "4", uuid |-> 8, attrs |-> [Wkt |-> StrV(15)]] >>

EmptyGraph(directed, multigraph) ==
    [directed |-> directed, multigraph |-> multigraph,
     node |-> EmptyDict, adj |-> EmptyDict, heap |-> <<>>]

\* Graph.add_node(n, attr_dict)
AddNode(g, n) ==
    IF Has(g.node, n) THEN g
    ELSE [g EXCEPT !.node = Put(@, n, NodeAttrs(n)), !.adj = Put(@, n, EmptyDict)]

\* adj[u][v] = cell, and adj[v][u] = cell in an undirected graph
Link(g, u, v, cell) ==
    LET a1 == [g.adj EXCEPT ![u] = Put(@, v, cell)]
    IN  IF g.directed THEN a1 ELSE [a1 EXCEPT ![v] = Put(@, u, cell)]

\* Graph.add_edge(u, v, attr_dict) and MultiGraph.add_edge(u, v, key, attr_dict)
AddEdge(g0, c) ==
    LET g == AddNode(AddNode(g0, c.u), c.v)
        n == Len(g.heap)
    IN  IF ~g.multigraph
        THEN IF Has(g.adj[c.u], c.v)
             THEN [g EXCEPT !.heap[g.adj[c.u][c.v].v] = Update(@, c.attrs)]
             ELSE [g EXCEPT !.heap = Append(@, c.attrs),
                            !.adj = Link(g, c.u, c.v, RefV(n + 1))]
        ELSE LET key == UuidKeys[c.uuid]
                 dd == Put(c.attrs, "uuid", StrV(c.uuid))
             IN  IF Has(g.adj[c.u], c.v)
                 THEN LET kd == g.adj[c.u][c.v].v
                      IN  [g EXCEPT !.heap = Append([@ EXCEPT ![kd] = Put(@, key, RefV(n + 1))], dd)]
                 ELSE [g EXCEPT !.heap = @ \o <<[x \in {key} |-> RefV(n + 2)], dd>>,
                                !.adj = Link(g, c.u, c.v, RefV(n + 1))]

RECURSIVE Build(_, _, _)
Build(g, chosen, i) ==
    IF i > Len(Cands) THEN g
    ELSE IF i \in chosen
         THEN Build(IF Cands[i].op = "edge" THEN AddEdge(g, Cands[i]) ELSE AddNode(g, Cands[i].u),
                    chosen, i + 1)
         ELSE Build(g, chosen, i + 1)

InputGraphs ==
    {Build(EmptyGraph(d, m), chosen, 1) :
        d \in BOOLEAN, m \in BOOLEAN,
        chosen \in {c \in SUBSET (1..Len(Cands)) : Cardinality(c) <= MaxEdges}}

\* Position of a node key in the iteration order
RECURSIVE IndexOf(_, _, _)
IndexOf(seq, x, i) == IF i > Len(seq) THEN 0 ELSE IF seq[i] = x THEN i ELSE IndexOf(seq, x, i + 1)

\* ogr.Geometry.ExportToWkt
ExportToWkt(geom) == StrV(IndexOf(WktTexts, geom, 1))

\* G.edges(data=True): the list of (u, v, data), data being the edge's own
\* attribute dictionary (here its heap reference).  An undirected graph
\* reports each edge once, from the endpoint met first.
EdgeSlots ==
    [i \in 1..(Len(NodeOrder) * Len(NodeOrder) * Len(UuidKeys)) |->
        [u |-> NodeOrder[((i - 1) \div (Len(NodeOrder) * Len(UuidKeys))) + 1],
         v |-> NodeOrder[(((i - 1) \div Len(UuidKeys)) % Len(NodeOrder)) + 1],
         key |-> UuidKeys[((i - 1) % Len(UuidKeys)) + 1],
         first |-> ((i - 1) % Len(UuidKeys)) = 0]]
SlotPresent(g, s) ==
    /\ Has(g.adj, s.u)
    /\ Has(g.adj[s.u], s.v)
    /\ g.directed \/ IndexOf(NodeOrder, s.v, 1) >= IndexOf(NodeOrder, s.u, 1)
    /\ IF g.multigraph THEN Has(g.heap[g.adj[s.u][s.v].v], s.key) ELSE s.first
SlotEdge(g, s) ==
    [u |-> s.u, v |-> s.v,
     d |-> IF g.multigraph THEN g.heap[g.adj[s.u][s.v].v][s.key].v ELSE g.adj[s.u][s.v].v]
MapSeq(f(_), seq) == [i \in 1..Len(seq) |-> f(seq[i])]
GEdges(g) ==
    MapSeq(LAMBDA s : SlotEdge(g, s), SelectSeq(EdgeSlots, LAMBDA s : SlotPresent(g, s)))

(***************************************************************************)
(* The database.  graphs is the shared Graphs table; tables[name] holds    *)
(* the three tables of network `name`.  Identifiers are serial: a table    *)
(* created afresh numbers its rows from 1.                                 *)
(***************************************************************************)
Names == {"Net", "net"}
\* re.findall('[A-Z]', prefix) is not empty
HasCapital(name) == name = "Net"

NodeBaseCols == <<"GraphID", "geom", "NodeID">>
EdgeBaseCols == <<"Node_F_ID", "Node_T_ID", "GraphID", "Edge_GeomID", "EdgeID">>
\* the types of the columns of the Edges table (edgeTypes maps a column of
\* edgeCols to its OGR field type)
NoTypes == [x \in {} |-> "OFTString"]
EdgeBaseTypes == [x \in {EdgeBaseCols[i] : i \in 1..Len(EdgeBaseCols)} |-> "OFTInteger"]
NoTable == [exists |-> FALSE, nodeCols |-> <<>>, edgeCols |-> <<>>, edgeTypes |-> NoTypes,
            nodes |-> <<>>, geoms |-> <<>>, edges |-> <<>>]
NewTable == [exists |-> TRUE, nodeCols |-> NodeBaseCols, edgeCols |-> EdgeBaseCols,
             edgeTypes |-> EdgeBaseTypes,
             nodes |-> <<>>, geoms |-> <<>>, edges |-> <<>>]
EmptyDb == [graphs |-> <<>>, graphSerial |-> 0, tables |-> [n \in Names |-> NoTable]]

Range(seq) == {seq[i] : i \in 1..Len(seq)}
Last(seq) == seq[Len(seq)]

\* nisql.create_network_tables: the result is true when the tables were
\* created, 0 when the network already exists
CreateNetworkTables(d, prefix) ==
    IF d.tables[prefix].exists THEN [result |-> FALSE, db |-> d]
    ELSE [result |-> TRUE, db |-> [d EXCEPT !.tables[prefix] = NewTable]]

\* nisql.delete_network: drops the tables and the Graphs entry of the network
DeleteNetwork(d, prefix) ==
    [d EXCEPT !.tables[prefix] = NoTable,
              !.graphs = SelectSeq(@, LAMBDA r : r.GraphName # prefix)]

\* nisql.add_graph_record(prefix, directed, multigraph)
AddGraphRecord(d, prefix, directed, multigraph) ==
    [d EXCEPT !.graphSerial = @ + 1,
              !.graphs = Append(@, [GraphID |-> d.graphSerial + 1, GraphName |-> prefix,
                                    Directed |-> directed, MultiGraph |-> multigraph])]

\* the select of the lowest id instead
LowestGraphID(d) ==
    IF d.graphs = <<>> THEN NoneV
    ELSE IntV(CHOOSE m \in {r.GraphID : r \in Range(d.graphs)} :
                  \A r \in Range(d.graphs) : r.GraphID >= m)
\* SELECT "GraphID" FROM "Graphs" ORDER BY "GraphID" DESC LIMIT 1
HighestGraphID(d) ==
    IF d.graphs = <<>> THEN NoneV
    ELSE IntV(CHOOSE m \in {r.GraphID : r \in Range(d.graphs)} :
                  \A r \in Range(d.graphs) : r.GraphID <= m)

\* nisql.node_geometry_equality_check, nisql.edge_geometry_equality_check
\* and nisql.node_attribute_equality_check: the id of an equal row, or None
NodeGeometryEqualityCheck(t, geom) ==
    IF \E r \in Range(t.nodes) : r.geom = geom
    THEN IntV((CHOOSE r \in Range(t.nodes) : r.geom = geom).NodeID)
    ELSE NoneV
EdgeGeometryEqualityCheck(t, geom) ==
    IF \E r \in Range(t.geoms) : r.geom = geom
    THEN IntV((CHOOSE r \in Range(t.geoms) : r.geom = geom).GeomID)
    ELSE NoneV
\* the attribute check answered by comparing the empty point geometry
NodeAttributeEqualityCheckByGeometry(t, key, value) ==
    NodeGeometryEqualityCheck(t, PointEmpty)
NodeAttributeEqualityCheck(t, key, value) ==
    IF \E r \in Range(t.nodes) : Get(r.attrs, key) = value
    THEN IntV((CHOOSE r \in Range(t.nodes) : Get(r.attrs, key) = value).NodeID)
    ELSE NoneV

\* lyr.CreateField for each new column
AddCols(cols, new) == cols \o SelectSeq(new, LAMBDA c : c \notin Range(cols))
\* ogr.FieldDefn(key, fields[key]): the type each new column is created with
AddColTypes(types, new, fields) ==
    [c \in DOMAIN types \cup Range(new) |-> IF c \in DOMAIN types THEN types[c] ELSE fields[c]]

(***************************************************************************)
(* write.create_attribute_map                                              *)
(***************************************************************************)
ReservedKeys == {"Json", "Wkt", "Wkb", "ShpName", "NodeID", "nodeid", "EdgeID", "edgeid",
                 "viewid", "view_id", "ViewID", "View_ID", "GeomID", "geomid", "geom",
                 "geom_text"}
\* every value taken for a string
OGRTypeString(cell) == "OFTString"
OGRType(cell) ==
    CASE cell.k = "int" -> "OFTInteger"
      [] cell.k = "float" -> "OFTReal"
      [] OTHER -> "OFTString"
NodeFields0 == [GraphID |-> "OFTInteger"]
EdgeFields0 == [Node_F_ID |-> "OFTInteger", Node_T_ID |-> "OFTInteger",
                GraphID |-> "OFTInteger", Edge_GeomID |-> "OFTInteger"]

\* create_attribute_map registering, for every key, the type of the value
\* it sees now, and creating a column whenever that type is new for the key
CreateAttributeMapRetyping(g_obj, fields) ==
    LET new == SelectSeq(Keys(g_obj),
                         LAMBDA x : /\ x \notin ReservedKeys
                                    /\ (x \notin DOMAIN fields \/ fields[x] # OGRType(g_obj[x])))
    IN  [attrs |-> [x \in DOMAIN g_obj \ ReservedKeys |-> g_obj[x]],
         fields |-> [x \in DOMAIN fields \cup Range(new) |->
                        IF x \in Range(new) THEN OGRType(g_obj[x]) ELSE fields[x]],
         created |-> new]
\* attrs: the storable attributes; fields: the registry afterwards;
\* created: the columns for which lyr.CreateField was called
CreateAttributeMap(g_obj, fields) ==
    LET new == SelectSeq(Keys(g_obj), LAMBDA x : x \notin ReservedKeys /\ x \notin DOMAIN fields)
    IN  [attrs |-> [x \in DOMAIN g_obj \ ReservedKeys |-> g_obj[x]],
         fields |-> [x \in DOMAIN fields \cup Range(new) |->
                        IF x \in DOMAIN fields THEN fields[x] ELSE OGRType(g_obj[x])],
         created |-> new]

(***************************************************************************)
(* write.pgnet_node, write.pgnet_node_empty_geometry, write.pgnet_edge and *)
(* write.pgnet_edge_empty_geometry, as functions of the network's tables.  *)
(* Each returns the tables afterwards, the id found or assigned, and the   *)
(* storage requests it issued.                                             *)
(***************************************************************************)
InsertNode(t, node_attributes, node_geom) ==
    [t EXCEPT !.nodes = Append(@, [NodeID |-> Len(t.nodes) + 1, geom |-> node_geom,
                                   attrs |-> node_attributes])]
\* SELECT "NodeID" FROM nodes ORDER BY "NodeID" DESC LIMIT 1
HighestNodeID(t) == IF t.nodes = <<>> THEN NoneV ELSE IntV(Last(t.nodes).NodeID)
\* SELECT "GeomID" FROM edge_geometry ORDER BY "GeomID" DESC LIMIT 1
HighestGeomID(t) == IF t.geoms = <<>> THEN NoneV ELSE IntV(Last(t.geoms).GeomID)

\* pgnet_node without the equality check: every visit inserts
PgnetNodeNoCheck(t, node_attributes, node_geom) ==
    LET t1 == InsertNode(t, node_attributes, node_geom)
    IN  [t |-> t1, id |-> HighestNodeID(t1), raised |-> FALSE,
         reqs |-> <<[req |-> "insert_node", row |-> Last(t1.nodes)]>>]
PgnetNode(t, node_attributes, node_geom) ==
    LET NodeID == NodeGeometryEqualityCheck(t, node_geom)
    IN  IF NodeID = NoneV
        THEN LET t1 == InsertNode(t, node_attributes, node_geom)
             IN  [t |-> t1, id |-> HighestNodeID(t1), raised |-> FALSE,
                  reqs |-> <<[req |-> "node_geometry_equality_check"],
                             [req |-> "insert_node", row |-> Last(t1.nodes)]>>]
        ELSE [t |-> t, id |-> NodeID, raised |-> FALSE,
              reqs |-> <<[req |-> "node_geometry_equality_check"]>>]

PgnetNodeEmptyGeometry(t, node_attribute_equality_key, node_attributes, node_geom) ==
    IF Has(node_attributes, node_attribute_equality_key)
    THEN LET NodeID == NodeAttributeEqualityCheck(t, node_attribute_equality_key,
                           node_attributes[node_attribute_equality_key])
         IN  IF NodeID = NoneV
             THEN LET t1 == InsertNode(t, node_attributes, node_geom)
                  IN  [t |-> t1, id |-> HighestNodeID(t1), raised |-> FALSE,
                       reqs |-> <<[req |-> "node_attribute_equality_check"],
                                  [req |-> "insert_node", row |-> Last(t1.nodes)]>>]
             ELSE [t |-> t, id |-> NodeID, raised |-> FALSE,
                   reqs |-> <<[req |-> "node_attribute_equality_check"]>>]
    ELSE [t |-> t, id |-> NoneV, raised |-> TRUE, reqs |-> <<>>]

InsertGeom(t, edge_geom) ==
    [t EXCEPT !.geoms = Append(@, [GeomID |-> Len(t.geoms) + 1, geom |-> edge_geom])]
\* an insert that replaces the row holding the same geometry id
InsertEdgeReplace(t, edge_attributes) ==
    LET same(r) == Get(r.attrs, "Edge_GeomID") = Get(edge_attributes, "Edge_GeomID")
    IN  IF \E r \in Range(t.edges) : same(r)
        THEN [t EXCEPT !.edges = [i \in 1..Len(t.edges) |->
                 IF same(t.edges[i]) THEN [t.edges[i] EXCEPT !.attrs = edge_attributes]
                 ELSE t.edges[i]]]
        ELSE [t EXCEPT !.edges = Append(@, [EdgeID |-> Len(t.edges) + 1,
                                            attrs |-> edge_attributes])]
\* INSERT INTO edges (fields) VALUES (data)
InsertEdge(t, edge_attributes) ==
    [t EXCEPT !.edges = Append(@, [EdgeID |-> Len(t.edges) + 1, attrs |-> edge_attributes])]

\* the INSERT is refused: a text value is given for a column created as
\* an integer or a real
InsertEdgeFails(t, edge_attributes) ==
    \E K \in DOMAIN edge_attributes \cap DOMAIN t.edgeTypes :
        edge_attributes[K].k = "str" /\ t.edgeTypes[K] # "OFTString"
\* a failed insert that takes the rows written so far back out of the tables
ExecuteInsertEdgeRollback(t, attrs) ==
    IF InsertEdgeFails(t, attrs)
    THEN [t |-> [t EXCEPT !.nodes = <<>>, !.geoms = <<>>, !.edges = <<>>], raised |-> TRUE,
          reqs |-> <<[req |-> "insert_edge_error", attrs |-> attrs]>>]
    ELSE LET t2 == InsertEdge(t, attrs)
         IN  [t |-> t2, raised |-> FALSE,
              reqs |-> <<[req |-> "insert_edge", row |-> Last(t2.edges)]>>]
\* try: ExecuteSQL(sql) except: print, ExecuteSQL(sql): the statement that
\* failed is executed again and its error then leaves pgnet_edge
ExecuteInsertEdge(t, attrs) ==
    IF InsertEdgeFails(t, attrs)
    THEN [t |-> t, raised |-> TRUE,
          reqs |-> <<[req |-> "insert_edge_error", attrs |-> attrs],
                     [req |-> "insert_edge_error", attrs |-> attrs]>>]
    ELSE LET t2 == InsertEdge(t, attrs)
         IN  [t |-> t2, raised |-> FALSE,
              reqs |-> <<[req |-> "insert_edge", row |-> Last(t2.edges)]>>]

\* pgnet_edge without the equality check: every edge inserts its geometry
PgnetEdgeNoCheck(t, edge_attributes, edge_geom) ==
    LET t1 == InsertGeom(t, edge_geom)
        attrs == Put(edge_attributes, "Edge_GeomID", HighestGeomID(t1))
        x == ExecuteInsertEdge(t1, attrs)
    IN  [t |-> x.t, id |-> HighestGeomID(t1), raised |-> x.raised,
         reqs |-> <<[req |-> "insert_geom", row |-> Last(t1.geoms)]>> \o x.reqs]
\* pgnet_edge writing the Edge row first and its geometry afterwards
PgnetEdgeRowFirst(t, edge_attributes, edge_geom) ==
    LET x == ExecuteInsertEdge(t, Put(edge_attributes, "Edge_GeomID", NoneV))
        t1 == InsertGeom(x.t, edge_geom)
    IN  [t |-> t1, id |-> HighestGeomID(t1), raised |-> x.raised,
         reqs |-> x.reqs \o <<[req |-> "insert_geom", row |-> Last(t1.geoms)]>>]
PgnetEdge(t, edge_attributes, edge_geom) ==
    LET found == EdgeGeometryEqualityCheck(t, edge_geom)
        t1 == IF found = NoneV THEN InsertGeom(t, edge_geom) ELSE t
        GeomID == IF found = NoneV THEN HighestGeomID(t1) ELSE found
        attrs == Put(edge_attributes, "Edge_GeomID", GeomID)
        x == ExecuteInsertEdge(t1, attrs)
    IN  [t |-> x.t, id |-> GeomID, raised |-> x.raised,
         reqs |-> <<[req |-> "edge_geometry_equality_check"]>>
                  \o (IF found = NoneV THEN <<[req |-> "insert_geom", row |-> Last(t1.geoms)]>>
                      ELSE <<>>)
                  \o x.reqs]

PgnetEdgeEmptyGeometry(t, edge_attributes, edge_geom) ==
    LET t1 == InsertGeom(t, edge_geom)
        GeomID == HighestGeomID(t1)
        attrs == Put(edge_attributes, "Edge_GeomID", GeomID)
        t2 == InsertEdge(t1, attrs)
    IN  [t |-> t2, id |-> GeomID, raised |-> FALSE,
         reqs |-> <<[req |-> "insert_geom", row |-> Last(t1.geoms)],
                    [req |-> "insert_edge", row |-> Last(t2.edges)]>>]

(***************************************************************************)
(* write.pgnet_via_csv: the staging files and the bulk copy                *)
(***************************************************************************)
\* write.add_attribute_fields: the columns it creates
AddAttributeFieldsKeys == {"Json", "Wkt", "Wkb", "ShpName", "nodeid", "edgeid", "viewid",
                           "view_id", "geomid", "GeomID", "EdgeID", "NodeID", "geom_text"}
AddAttributeFields(g_obj, fields) ==
    SelectSeq(Keys(g_obj), LAMBDA x : x \notin AddAttributeFieldsKeys /\ x \notin DOMAIN fields)

\* the keys left out of the node header, of the edge header and of a node record
NodeHeaderSkip == {"NodeID", "geom", "GraphID", "Wkt", "Wkb", "Json", "geom_text"}
EdgeHeaderSkip == {"Json", "Wkt", "Wkb", "ShpName", "Node_F_ID", "Node_T_ID", "GraphID",
                   "Edge_GeomID", "GeomID", "EdgeID", "geom", "geom_text"}
NodeRecordSkip == {"Json", "Wkt", "Wkb", "ShpName", "nodeid", "viewid", "GraphID", "NodeID",
                   "geom_text"}

\* G.nodes(data=True), in iteration order
GNodes(g) == SelectSeq(NodeOrder, LAMBDA n : Has(g.node, n))

\* the node-specific field names: the keys of the first node that has attributes
NodeSpecificFieldnames(g) ==
    LET with == SelectSeq(GNodes(g), LAMBDA n : DOMAIN g.node[n] # {})
    IN  IF with = <<>> THEN <<>>
        ELSE SelectSeq(Keys(g.node[with[1]]), LAMBDA x : x \notin NodeHeaderSkip)
\* the edge-specific field names: the keys of G.edges(data=True)[0]
EdgeSpecificFieldnames(g) ==
    SelectSeq(Keys(g.heap[GEdges(g)[1].d]), LAMBDA x : x \notin EdgeHeaderSkip)

\* the fields of a node record after GraphID, geometry and NodeID
NodeRecordTail(data, specific) ==
    IF DOMAIN data # {}
    THEN MapSeq(LAMBDA x : data[x],
                SelectSeq(specific, LAMBDA x : Has(data, x) /\ x \notin NodeRecordSkip))
    ELSE MapSeq(LAMBDA x : NoneV, specific)

\* COPY table FROM file CSV HEADER: the header line is skipped and the fields
\* of every record are taken in the order of the table's columns; a record
\* with too few or too many fields, or a repeated key, fails the whole copy
CopyOk(cols, records, idcol) ==
    /\ \A i \in 1..Len(records) : Len(records[i]) = Len(cols)
    /\ \A i, j \in 1..Len(records) :
          i # j => records[i][IndexOf(cols, idcol, 1)] # records[j][IndexOf(cols, idcol, 1)]
RecordFields(cols, rec, skip) ==
    [c \in {x \in Range(cols) \ skip : rec[IndexOf(cols, x, 1)] # NoneV} |->
        rec[IndexOf(cols, c, 1)]]
CopyNodes(t, records) ==
    [t EXCEPT !.nodes = @ \o MapSeq(LAMBDA rec :
        [NodeID |-> rec[IndexOf(t.nodeCols, "NodeID", 1)].v,
         geom |-> CreateGeometryFromWkt(rec[IndexOf(t.nodeCols, "geom", 1)]),
         attrs |-> RecordFields(t.nodeCols, rec, {"NodeID", "geom"})], records)]
CopyGeoms(t, records) ==
    [t EXCEPT !.geoms = @ \o MapSeq(LAMBDA rec :
        [GeomID |-> rec[2].v, geom |-> CreateGeometryFromWkt(rec[1])], records)]
\* COPY reads every field as the text of a value of its column: an integer
\* column takes integers only, a real column takes no text, an empty field
\* is a null
CopyFieldOk(cell, type) ==
    \/ cell = NoneV
    \/ type = "OFTString"
    \/ type = "OFTReal" /\ cell.k \in {"int", "float"}
    \/ type = "OFTInteger" /\ cell.k = "int"
CopyTypesOk(t, records) ==
    \A i \in 1..Len(records) : \A j \in 1..Len(t.edgeCols) :
        j <= Len(records[i]) => CopyFieldOk(records[i][j], t.edgeTypes[t.edgeCols[j]])
CopyEdges(t, records) ==
    [t EXCEPT !.edges = @ \o MapSeq(LAMBDA rec :
        [EdgeID |-> rec[IndexOf(t.edgeCols, "EdgeID", 1)].v,
         attrs |-> RecordFields(t.edgeCols, rec, {"EdgeID"})], records)]

(***************************************************************************)
(* read.pgnet.  The graph it builds is kept as its node and edge           *)
(* dictionaries: node maps a node key to its attributes, edge maps         *)
(* (ends, key) to the edge's attributes; ends is the pair (u, v) in a      *)
(* directed graph and the set {u, v} in an undirected one.                 *)
(***************************************************************************)
NewGraph(directed, multigraph) ==
    [directed |-> directed, multigraph |-> multigraph,
     node |-> [x \in {} |-> EmptyDict], edge |-> [x \in {} |-> EmptyDict]]
EdgeKey(g, u, v, key) ==
    [ends |-> IF g.directed THEN <<u, v>> ELSE {u, v}, key |-> key]
FnPut(f, x, val) == [y \in DOMAIN f \cup {x} |-> IF y = x THEN val ELSE f[y]]
\* an add_node that writes the attributes on the edges that end in n as well
RAddNodeOverEdges(g, n, attrs) ==
    [g EXCEPT !.node = FnPut(@, n, Update(IF n \in DOMAIN g.node THEN g.node[n] ELSE EmptyDict,
                                          attrs)),
              !.edge = [ek \in DOMAIN @ |->
                           IF attrs # EmptyDict
                              /\ (IF g.directed THEN n \in {ek.ends[1], ek.ends[2]}
                                  ELSE n \in ek.ends)
                           THEN Update(@[ek], attrs) ELSE @[ek]]]
\* G.add_node(n, attr_dict)
RAddNode(g, n, attrs) ==
    [g EXCEPT !.node = FnPut(@, n, Update(IF n \in DOMAIN g.node THEN g.node[n] ELSE EmptyDict,
                                          attrs))]
\* G.add_edge(u, v, attr_dict) and G.add_edge(u, v, key, attr_dict)
RAddEdge(g, u, v, key, attrs) ==
    LET g1 == RAddNode(RAddNode(g, u, EmptyDict), v, EmptyDict)
        ek == EdgeKey(g, u, v, key)
    IN  [g1 EXCEPT !.edge = FnPut(@, ek, Update(IF ek \in DOMAIN g.edge THEN g.edge[ek]
                                                 ELSE EmptyDict, attrs))]

\* read.graph_table: the rows of Graphs named prefix
GraphRows(d, prefix) == SelectSeq(d.graphs, LAMBDA r : r.GraphName = prefix)

\* the fields of a feature of the edge view and of the node view
EdgeViewFields(t, r) ==
    [c \in Range(t.edgeCols) \cup {"GeomID"} |->
        CASE c = "EdgeID" -> IntV(r.EdgeID)
          [] c = "GeomID" -> Get(r.attrs, "Edge_GeomID")
          [] OTHER -> Get(r.attrs, c)]
NodeViewFields(t, r) ==
    [c \in Range(t.nodeCols) \ {"geom"} |->
        IF c = "NodeID" THEN IntV(r.NodeID) ELSE Get(r.attrs, c)]
\* the edge view joins Edges and Edge_Geometry on the geometry id
EdgeView(t) ==
    SelectSeq(t.edges, LAMBDA r : \E g \in Range(t.geoms) :
                                      IntV(g.GeomID) = Get(r.attrs, "Edge_GeomID"))
GeomOf(t, r) ==
    (CHOOSE g \in Range(t.geoms) : IntV(g.GeomID) = Get(r.attrs, "Edge_GeomID")).geom
WithGeometry(attributes, geom) ==
    Put(Put(Put(attributes, "Wkb", ExportToWkt(geom)), "Wkt", ExportToWkt(geom)),
        "Json", ExportToWkt(geom))
SupportedEdgeGeometry(geom) ==
    \/ geom.type \in {"LINESTRING", "MULTILINESTRING"}
    \/ geom.type = "GEOMETRYCOLLECTION" /\ geom.c = <<>>

\* one feature of the edge view added to graph (the body of the loop of
\* read.pgnet_edges); raised tells that attributes['uuid'] was missing
ReadEdgeFeature(graph, t, r) ==
    LET attributes == WithGeometry(EdgeViewFields(t, r), GeomOf(t, r))
        same == SelectSeq(EdgeView(t), LAMBDA q : Get(q.attrs, "Edge_GeomID")
                                                  = Get(r.attrs, "Edge_GeomID"))
        atts == EdgeViewFields(t, Last(same))
    IN  IF ~SupportedEdgeGeometry(GeomOf(t, r)) THEN [g |-> graph, raised |-> FALSE]
        ELSE IF graph.multigraph
             THEN IF Has(attributes, "uuid")
                  THEN [g |-> RAddEdge(graph, attributes["Node_F_ID"], attributes["Node_T_ID"],
                                       attributes["uuid"], attributes),
                        raised |-> FALSE]
                  ELSE [g |-> graph, raised |-> TRUE]
             ELSE [g |-> RAddEdge(RAddEdge(graph, attributes["Node_F_ID"],
                                           attributes["Node_T_ID"], NoneV, attributes),
                                  atts["Node_F_ID"], atts["Node_T_ID"], NoneV, atts),
                   raised |-> FALSE]

RECURSIVE ReadPgnetEdges(_, _, _, _)
ReadPgnetEdges(graph, t, view, i) ==
    IF i > Len(view) THEN [g |-> graph, raised |-> FALSE]
    ELSE LET r == ReadEdgeFeature(graph, t, view[i])
         IN  IF r.raised THEN r ELSE ReadPgnetEdges(r.g, t, view, i + 1)

RECURSIVE ReadPgnetNodes(_, _, _)
ReadPgnetNodes(graph, t, i) ==
    IF i > Len(t.nodes) THEN graph
    ELSE LET attributes == WithGeometry(NodeViewFields(t, t.nodes[i]), t.nodes[i].geom)
         IN  ReadPgnetNodes(RAddNode(graph, attributes["NodeID"], attributes), t, i + 1)

(***************************************************************************)
(* State                                                                   *)
(***************************************************************************)
VARIABLES
    network,    \* the caller's graph as it was built
    db,         \* the database
    called,     \* the writers the caller has run
    op,         \* the call in progress or ended last: "pgnet", "csv" or "read"
    pc,         \* the position inside the call; "idle", "done", "failed" between calls
    args,       \* the arguments of the last call of each operation
    history,    \* who created the tables of each network, how each call ended
    G,          \* the graph the writer works on (G = network)
    loc,        \* the local variables of write.pgnet
    error,      \* the exception that ended the call, "none" if none
    log,        \* the storage requests the call has issued
    result,     \* the graph read.pgnet is building and returns
    csv         \* the local variables and staging files of write.pgnet_via_csv

vars == <<network, db, called, op, pc, args, history, G, loc, error, log, result, csv>>

NoArgs == [prefix |-> "Net", srs |-> 27700, overwrite |-> FALSE, directed |-> FALSE,
           multigraph |-> FALSE, node_equality_key |-> "geom"]
NoCsv == [node_table_specific_fieldnames |-> <<>>, edge_table_specific_fieldnames |-> <<>>,
          node_csv |-> <<>>, edge_csv |-> <<>>, edge_geom_csv |-> <<>>,
          graph_id |-> NoneV, first_edge |-> FALSE, current_node_id |-> 1,
          current_edge_id |-> 1, node_ids |-> <<>>, node_coords |-> <<>>,
          from_check |-> FALSE, edges |-> <<>>, i |-> 1]
NoLoc == [graph_id |-> NoneV, edges |-> <<>>, i |-> 1, node_f_id |-> NoneV,
          node_t_id |-> NoneV, node_fields |-> NodeFields0, edge_fields |-> EdgeFields0]

Ops == {"pgnet", "csv", "read"}
Idle == pc \in {"idle", "done", "failed"}
\* the arguments of the call in progress
arg == args[op]

Init ==
    /\ network \in InputGraphs
    /\ db = EmptyDb
    /\ called = {}
    /\ op = "read"
    /\ pc = "idle"
    /\ args = [o \in Ops |-> NoArgs]
    /\ history = [owner |-> [n \in Names |-> "none"], outcome |-> [o \in Ops |-> "none"]]
    /\ G = network
    /\ loc = NoLoc
    /\ error = "none"
    /\ log = <<>>
    /\ result = NewGraph(FALSE, FALSE)
    /\ csv = NoCsv

\* the call ends with an exception
Raise(msg) ==
    /\ error' = msg
    /\ pc' = "failed"
    /\ op' = op
    /\ history' = [history EXCEPT !.outcome[op] = "failed"]
\* the call returns
Return ==
    /\ pc' = "done"
    /\ history' = [history EXCEPT !.outcome[op] = "done"]

(***************************************************************************)
(* write.pgnet                                                             *)
(***************************************************************************)
\* the caller: nx_pgnet.write(conn).pgnet(network, prefix, srs, overwrite,
\* directed, multigraph, node_equality_key)
CallPgnet(prefix, srs, overwrite, key) ==
    /\ Idle
    /\ "pgnet" \notin called
    /\ called' = called \cup {"pgnet"}
    /\ op' = "pgnet"
    /\ pc' = "create"
    /\ args' = [args EXCEPT !["pgnet"] =
                    [prefix |-> prefix, srs |-> srs, overwrite |-> overwrite,
                     directed |-> network.directed, multigraph |-> network.multigraph,
                     node_equality_key |-> key]]
    /\ history' = [history EXCEPT !.outcome["pgnet"] = "running"]
    /\ G' = network
    /\ loc' = NoLoc
    /\ error' = "none"
    /\ log' = <<>>
    /\ UNCHANGED <<network, db, result, csv>>

\* table creation that replaces an existing network whatever overwrite says
EnsureTablesReplacing(prefix, directed, multigraph, overwrite) ==
    LET r1 == [req |-> "create_network_tables", prefix |-> prefix,
               directed |-> directed, multigraph |-> multigraph]
    IN  [ok |-> TRUE, db |-> CreateNetworkTables(DeleteNetwork(db, prefix), prefix).db,
         reqs |-> <<r1, [req |-> "delete_network", prefix |-> prefix], r1>>]
\* create_network_tables, and delete_network then create_network_tables
\* again when the network exists and overwrite is True
EnsureTables(prefix, directed, multigraph, overwrite) ==
    LET c1 == CreateNetworkTables(db, prefix)
        r1 == [req |-> "create_network_tables", prefix |-> prefix,
               directed |-> directed, multigraph |-> multigraph]
        c2 == CreateNetworkTables(DeleteNetwork(db, prefix), prefix)
    IN  IF c1.result THEN [ok |-> TRUE, db |-> c1.db, reqs |-> <<r1>>]
        ELSE IF overwrite
             THEN [ok |-> TRUE, db |-> c2.db,
                   reqs |-> <<r1, [req |-> "delete_network", prefix |-> prefix], r1>>]
             ELSE [ok |-> FALSE, db |-> c1.db, reqs |-> <<r1>>]

PgnetCreateTables ==
    /\ op = "pgnet" /\ pc = "create"
    /\ LET r == EnsureTables(arg.prefix, arg.directed, arg.multigraph, arg.overwrite)
       IN  /\ db' = r.db
           /\ log' = log \o r.reqs
           /\ IF r.ok
              THEN /\ pc' = "register"
                   /\ history' = [history EXCEPT !.owner[arg.prefix] = op]
                   /\ UNCHANGED <<op, error>>
              ELSE Raise("Network already exists.")
    /\ UNCHANGED <<network, called, args, G, loc, result, csv>>

\* write.update_graph_table
UpdateGraphTable(d, prefix) ==
    LET d1 == AddGraphRecord(d, prefix, FALSE, FALSE)
    IN  [db |-> d1, GraphID |-> HighestGraphID(d1),
         reqs |-> <<[req |-> "add_graph_record", prefix |-> prefix,
                     directed |-> FALSE, multigraph |-> FALSE]>>]

PgnetRegister ==
    /\ op = "pgnet" /\ pc = "register"
    /\ LET r == UpdateGraphTable(db, arg.prefix)
           edges == GEdges(G)
       IN  /\ db' = r.db
           /\ log' = log \o r.reqs
           /\ loc' = [loc EXCEPT !.graph_id = r.GraphID, !.edges = edges, !.i = 1]
           /\ pc' = IF edges = <<>> THEN "views" ELSE "from"
    /\ UNCHANGED <<network, called, op, args, history, G, error, result, csv>>

\* resolves or inserts the node `key` of G; with = the node's attribute map
ResolveNode(key) ==
    LET cam == CreateAttributeMap(G.node[key], loc.node_fields)
        node_attrs == Put(cam.attrs, "GraphID", loc.graph_id)
        t0 == [db.tables[arg.prefix] EXCEPT !.nodeCols = AddCols(@, cam.created)]
        r == IF arg.srs # -1
             THEN PgnetNode(t0, node_attrs, NodeGeometry(key, G.node[key]))
             ELSE PgnetNodeEmptyGeometry(t0, arg.node_equality_key, node_attrs, PointEmpty)
    IN  [t |-> r.t, id |-> r.id, raised |-> r.raised, fields |-> cam.fields,
         reqs |-> MapSeq(LAMBDA c : [req |-> "create_field", table |-> "nodes", col |-> c,
                                     type |-> cam.fields[c]],
                         cam.created) \o r.reqs]

\* the assignment made on the adjacency dictionary of u instead
SetEdgeItemOnAdj(g, u, v, key, val) == [g EXCEPT !.adj[u] = Put(@, key, val)]
\* G[u][v][key] = val: adj[u][v] refers to the edge's attribute dictionary
\* in a simple graph and to the dictionary of edge keys in a multigraph
SetEdgeItem(g, u, v, key, val) == [g EXCEPT !.heap[g.adj[u][v].v] = Put(@, key, val)]
\* G[u][key] = val: G[u] is the adjacency dictionary of u
SetAdjItem(g, u, key, val) == [g EXCEPT !.adj[u] = Put(@, key, val)]

PgnetFromNode ==
    /\ op = "pgnet" /\ pc = "from"
    /\ LET e == loc.edges[loc.i]
           r == ResolveNode(e.u)
       IN  /\ db' = [db EXCEPT !.tables[arg.prefix] = r.t]
           /\ log' = log \o r.reqs
           /\ IF r.raised
              THEN /\ Raise("The specified attribute does not exist")
                   /\ loc' = [loc EXCEPT !.node_fields = r.fields]
                   /\ UNCHANGED G
              ELSE /\ G' = SetAdjItem(SetEdgeItem(G, e.u, e.v, "Node_F_ID", r.id),
                                      e.u, "NodeID", r.id)
                   /\ loc' = [loc EXCEPT !.node_f_id = r.id, !.node_fields = r.fields]
                   /\ pc' = "to"
                   /\ UNCHANGED <<op, error, history>>
    /\ UNCHANGED <<network, called, args, result, csv>>

PgnetToNode ==
    /\ op = "pgnet" /\ pc = "to"
    /\ LET e == loc.edges[loc.i]
           r == ResolveNode(e.v)
       IN  /\ db' = [db EXCEPT !.tables[arg.prefix] = r.t]
           /\ log' = log \o r.reqs
           /\ IF r.raised
              THEN /\ Raise("The specified attribute does not exist")
                   /\ loc' = [loc EXCEPT !.node_fields = r.fields]
                   /\ UNCHANGED G
              ELSE /\ G' = SetEdgeItem(
                             SetAdjItem(SetEdgeItem(G, e.u, e.v, "Node_T_ID", r.id),
                                        e.v, "Node_T_ID", r.id),
                             e.u, e.v, "GraphID", loc.graph_id)
                   /\ loc' = [loc EXCEPT !.node_t_id = r.id, !.node_fields = r.fields]
                   /\ pc' = "edge"
                   /\ UNCHANGED <<op, error, history>>
    /\ UNCHANGED <<network, called, args, result, csv>>

\* G.get_edge_data(*e) and G.get_edge_data(e[0], e[1], e[2]['uuid'])
GetEdgeData(g, e) ==
    IF ~arg.multigraph THEN g.heap[g.adj[e.u][e.v].v]
    ELSE g.heap[g.heap[g.adj[e.u][e.v].v][KeyStr(g.heap[e.d]["uuid"])].v]

\* the edge attributes that reach pgnet_edge: e[2] reconciled with the
\* edge fields, the ids overwritten where e[2] holds the key
EdgeAttrs(attrs) ==
    LET a1 == IF Has(attrs, "Node_F_ID") THEN Put(attrs, "Node_F_ID", loc.node_f_id) ELSE attrs
        a2 == IF Has(a1, "Node_T_ID") THEN Put(a1, "Node_T_ID", loc.node_t_id) ELSE a1
    IN  IF Has(a2, "GraphID") THEN Put(a2, "GraphID", loc.graph_id) ELSE a2

PgnetInsertEdge ==
    /\ op = "pgnet" /\ pc = "edge"
    /\ LET e == loc.edges[loc.i]
           data == GetEdgeData(G, e)
           cam == CreateAttributeMap(G.heap[e.d], loc.edge_fields)
           edge_attrs == EdgeAttrs(cam.attrs)
           t0 == [db.tables[arg.prefix] EXCEPT
                     !.edgeCols = AddCols(@, cam.created),
                     !.edgeTypes = AddColTypes(@, cam.created, cam.fields)]
           r == IF arg.srs # -1
                THEN PgnetEdge(t0, edge_attrs, EdgeGeometry(e.u, e.v, data))
                ELSE PgnetEdgeEmptyGeometry(t0, edge_attrs, LineEmpty)
       IN  /\ db' = [db EXCEPT !.tables[arg.prefix] = r.t]
           /\ log' = log
                     \o MapSeq(LAMBDA c : [req |-> "create_field", table |-> "edges", col |-> c,
                                           type |-> cam.fields[c]],
                               cam.created)
                     \o r.reqs
           /\ IF r.raised
              THEN /\ Raise("RuntimeError")
                   /\ loc' = [loc EXCEPT !.edge_fields = cam.fields]
              ELSE /\ loc' = [loc EXCEPT !.edge_fields = cam.fields, !.i = @ + 1]
                   /\ pc' = IF loc.i < Len(loc.edges) THEN "from" ELSE "views"
                   /\ UNCHANGED <<op, error, history>>
    /\ UNCHANGED <<network, called, args, G, result, csv>>

\* nisql.create_node_view and nisql.create_edge_view
PgnetViews ==
    /\ op = "pgnet" /\ pc = "views"
    /\ log' = log \o <<[req |-> "create_node_view", prefix |-> arg.prefix],
                       [req |-> "create_edge_view", prefix |-> arg.prefix]>>
    /\ Return
    /\ UNCHANGED <<network, db, called, op, args, G, loc, error, result, csv>>

(***************************************************************************)
(* read.pgnet                                                              *)
(***************************************************************************)
CallRead(prefix) ==
    /\ Idle
    /\ op' = "read"
    /\ pc' = "graph_table"
    /\ args' = [args EXCEPT !["read"] = [NoArgs EXCEPT !.prefix = prefix]]
    /\ history' = [history EXCEPT !.outcome["read"] = "running"]
    /\ error' = "none"
    /\ log' = <<>>
    /\ result' = NewGraph(FALSE, FALSE)
    /\ UNCHANGED <<network, db, called, G, loc, csv>>

\* read.graph_table, the test of its result in read.pgnet and the choice of
\* the graph class.  With no row, graph_table leaves `keys` unbound and the
\* loop over it raises UnboundLocalError; where ExecuteSQL gives None for an
\* empty result, the loop over the rows raises TypeError instead.
ReadGraphTable ==
    /\ op = "read" /\ pc = "graph_table"
    /\ LET rows == GraphRows(db, arg.prefix)
       IN  IF rows = <<>>
           THEN (\E exc \in {"UnboundLocalError", "TypeError"} : Raise(exc))
                /\ UNCHANGED result
           ELSE /\ result' = NewGraph(Last(rows).Directed, Last(rows).MultiGraph)
                /\ pc' = "edges"
                /\ UNCHANGED <<op, error, history>>
    /\ UNCHANGED <<network, db, called, args, G, loc, log, csv>>

\* read.pgnet_edges
ReadEdges ==
    /\ op = "read" /\ pc = "edges"
    /\ LET t == db.tables[arg.prefix]
           r == ReadPgnetEdges(result, t, EdgeView(t), 1)
       IN  /\ result' = r.g
           /\ IF r.raised THEN Raise("KeyError") ELSE pc' = "nodes" /\ UNCHANGED <<op, error, history>>
    /\ log' = Append(log, [req |-> "create_edge_view", prefix |-> arg.prefix])
    /\ UNCHANGED <<network, db, called, args, G, loc, csv>>

\* read.pgnet_nodes, and the return of the graph
ReadNodes ==
    /\ op = "read" /\ pc = "nodes"
    /\ result' = ReadPgnetNodes(result, db.tables[arg.prefix], 1)
    /\ log' = Append(log, [req |-> "create_node_view", prefix |-> arg.prefix])
    /\ Return
    /\ UNCHANGED <<network, db, called, op, args, G, loc, error, csv>>

(***************************************************************************)
(* write.pgnet_via_csv                                                     *)
(***************************************************************************)
CallCsv(prefix, overwrite) ==
    /\ Idle
    /\ "csv" \notin called
    /\ called' = called \cup {"csv"}
    /\ op' = "csv"
    /\ pc' = "create"
    /\ args' = [args EXCEPT !["csv"] =
                    [prefix |-> prefix, srs |-> 27700, overwrite |-> overwrite,
                     directed |-> network.directed, multigraph |-> network.multigraph,
                     node_equality_key |-> "geom"]]
    /\ history' = [history EXCEPT !.outcome["csv"] = "running"]
    /\ G' = network
    /\ error' = "none"
    /\ log' = <<>>
    /\ csv' = NoCsv
    /\ UNCHANGED <<network, db, loc, result>>

CsvCreateTables ==
    /\ op = "csv" /\ pc = "create"
    /\ LET r == EnsureTables(arg.prefix, arg.directed, arg.multigraph, arg.overwrite)
       IN  /\ db' = r.db
           /\ log' = log \o r.reqs
           /\ IF r.ok
              THEN /\ pc' = "header"
                   /\ history' = [history EXCEPT !.owner[arg.prefix] = op]
                   /\ UNCHANGED <<op, error>>
              ELSE Raise("Network already exists.")
    /\ UNCHANGED <<network, called, args, G, loc, result, csv>>

\* the field names and the header lines; G.edges(data=True)[0] raises
\* IndexError on a graph without edges
CsvHeader ==
    /\ op = "csv" /\ pc = "header"
    /\ IF GEdges(G) = <<>>
       THEN Raise("IndexError") /\ UNCHANGED csv
       ELSE /\ csv' = [csv EXCEPT
                         !.node_table_specific_fieldnames = NodeSpecificFieldnames(G),
                         !.edge_table_specific_fieldnames = EdgeSpecificFieldnames(G)]
            /\ pc' = "register"
            /\ UNCHANGED <<op, error, history>>
    /\ UNCHANGED <<network, db, called, args, G, loc, log, result>>

CsvRegister ==
    /\ op = "csv" /\ pc = "register"
    /\ LET r == UpdateGraphTable(db, arg.prefix)
       IN  /\ db' = r.db
           /\ log' = log \o r.reqs
           /\ csv' = [csv EXCEPT !.graph_id = r.GraphID, !.edges = GEdges(G), !.i = 1]
    /\ pc' = "stage"
    /\ UNCHANGED <<network, called, op, args, history, G, loc, error, result>>

\* the columns created at the first edge: those of the edge itself and those
\* of the first edge end point e_[1] that has attributes
FirstEdgeColumns(t, e) ==
    LET with == SelectSeq(csv.edges, LAMBDA x : DOMAIN G.node[x.v] # {})
    IN  [t EXCEPT !.edgeCols = AddCols(@, AddAttributeFields(G.heap[e.d], EdgeFields0)),
                  !.edgeTypes = AddColTypes(@, AddAttributeFields(G.heap[e.d], EdgeFields0),
                                            [c \in DOMAIN G.heap[e.d] |->
                                                OGRType(G.heap[e.d][c])]),
                  !.nodeCols = IF with = <<>> THEN @
                               ELSE AddCols(@, AddAttributeFields(G.node[with[1].v],
                                                                  NodeFields0))]

\* the id of a to node met for the first time, the from node new or not
\* (the variant before it gives the counter as it stands)
NewToNodeIdSame(from_check, current_node_id) == current_node_id
NewToNodeId(from_check, current_node_id) ==
    IF from_check THEN current_node_id + 1 ELSE current_node_id

\* the node records written in one pass: those that are not empty
\* (the variant before it writes the record of the to node only)
ToNodeRecordOnly(node_from_attrs, node_to_attrs) ==
    IF Len(node_to_attrs) > 0 THEN <<node_to_attrs>> ELSE <<>>
StagedNodeRecords(node_from_attrs, node_to_attrs) ==
    (IF Len(node_from_attrs) > 0 THEN <<node_from_attrs>> ELSE <<>>)
    \o (IF Len(node_to_attrs) > 0 THEN <<node_to_attrs>> ELSE <<>>)

\* add_attribute_fields asks for a column the node table already has: the
\* key 'geom' is not among those it leaves out, and CreateField fails
DuplicateNodeColumn(t) ==
    LET with == SelectSeq(csv.edges, LAMBDA x : DOMAIN G.node[x.v] # {})
    IN  /\ with # <<>>
        /\ \E c \in Range(AddAttributeFields(G.node[with[1].v], NodeFields0)) :
               c \in Range(t.nodeCols)

\* the first pass ends in the failure of CreateField, the edge columns created
CsvStageFails ==
    /\ op = "csv" /\ pc = "stage"
    /\ ~csv.first_edge
    /\ DuplicateNodeColumn(db.tables[arg.prefix])
    /\ LET g_obj == G.heap[csv.edges[csv.i].d]
       IN  db' = [db EXCEPT
                    !.tables[arg.prefix].edgeCols =
                        AddCols(@, AddAttributeFields(g_obj, EdgeFields0)),
                    !.tables[arg.prefix].edgeTypes =
                        AddColTypes(@, AddAttributeFields(g_obj, EdgeFields0),
                                    [c \in DOMAIN g_obj |-> OGRType(g_obj[c])])]
    /\ Raise("RuntimeError")
    /\ UNCHANGED <<network, called, args, G, loc, log, result, csv>>

\* one pass of the loop over the edges: the records staged for the edge
CsvStage ==
    /\ op = "csv" /\ pc = "stage"
    /\ csv.first_edge \/ ~DuplicateNodeColumn(db.tables[arg.prefix])
    /\ LET e == csv.edges[csv.i]
           data == GetEdgeData(G, e)
           node_from_geom_wkt == ExportToWkt(NodeGeometry(e.u, G.node[e.u]))
           node_to_geom_wkt == ExportToWkt(NodeGeometry(e.v, G.node[e.v]))
           id0 == IF csv.first_edge THEN csv.current_node_id + 1 ELSE csv.current_node_id
           from_new == node_from_geom_wkt \notin Range(csv.node_coords)
           node_from_id == IF from_new THEN id0
                           ELSE csv.node_ids[IndexOf(csv.node_coords, node_from_geom_wkt, 1)]
           ids1 == IF from_new THEN Append(csv.node_ids, node_from_id) ELSE csv.node_ids
           coords1 == IF from_new THEN Append(csv.node_coords, node_from_geom_wkt)
                      ELSE csv.node_coords
           from_check1 == from_new
           node_from_attrs ==
               IF from_new
               THEN <<csv.graph_id, node_from_geom_wkt, IntV(node_from_id)>>
                    \o NodeRecordTail(G.node[e.u], csv.node_table_specific_fieldnames)
               ELSE <<>>
           to_new == node_to_geom_wkt \notin Range(coords1)
           node_to_id == IF to_new THEN NewToNodeId(from_check1, id0)
                         ELSE ids1[IndexOf(coords1, node_to_geom_wkt, 1)]
           ids2 == IF to_new THEN Append(ids1, node_to_id) ELSE ids1
           coords2 == IF to_new THEN Append(coords1, node_to_geom_wkt) ELSE coords1
           from_check2 == IF to_new THEN FALSE ELSE from_check1
           node_to_attrs ==
               IF to_new
               THEN <<csv.graph_id, node_to_geom_wkt, IntV(node_to_id)>>
                    \o NodeRecordTail(G.node[e.v], csv.node_table_specific_fieldnames)
               ELSE <<>>
           id2 == IF to_new THEN node_to_id ELSE id0
           edge_attrs ==
               <<IntV(node_from_id), IntV(node_to_id), csv.graph_id,
                 IntV(csv.current_edge_id), IntV(csv.current_edge_id)>>
               \o MapSeq(LAMBDA x : Get(data, x), csv.edge_table_specific_fieldnames)
           edge_geometry_attrs ==
               <<ExportToWkt(EdgeGeometry(e.u, e.v, data)), IntV(csv.current_edge_id)>>
       IN  /\ csv' = [csv EXCEPT
                 !.first_edge = TRUE,
                 !.node_ids = ids2,
                 !.node_coords = coords2,
                 !.from_check = from_check2,
                 !.current_node_id = IF ~from_new /\ ~to_new THEN id2 - 1 ELSE id2,
                 !.current_edge_id = @ + 1,
                 !.node_csv = @ \o StagedNodeRecords(node_from_attrs, node_to_attrs),
                 !.edge_geom_csv = Append(@, edge_geometry_attrs),
                 !.edge_csv = Append(@, edge_attrs),
                 !.i = @ + 1]
           /\ db' = IF csv.first_edge THEN db
                    ELSE [db EXCEPT !.tables[arg.prefix] = FirstEdgeColumns(@, e)]
           /\ pc' = IF csv.i < Len(csv.edges) THEN "stage" ELSE "copy_nodes"
    /\ UNCHANGED <<network, called, op, args, history, G, loc, error, log, result>>

\* the table names are quoted when the prefix holds a capital letter;
\* otherwise tbledges is read from self.tbledge, which does not exist
CsvCopyNodes ==
    /\ op = "csv" /\ pc = "copy_nodes"
    /\ LET t == db.tables[arg.prefix]
       IN  IF ~HasCapital(arg.prefix)
           THEN Raise("AttributeError") /\ UNCHANGED <<db, log>>
           ELSE /\ log' = Append(log, [req |-> "copy", table |-> "nodes"])
                /\ IF CopyOk(t.nodeCols, csv.node_csv, "NodeID")
                   THEN /\ db' = [db EXCEPT !.tables[arg.prefix] = CopyNodes(t, csv.node_csv)]
                        /\ pc' = "copy_geoms"
                        /\ UNCHANGED <<op, error, history>>
                   ELSE Raise("COPY failed") /\ UNCHANGED db
    /\ UNCHANGED <<network, called, args, G, loc, result, csv>>

CsvCopyGeoms ==
    /\ op = "csv" /\ pc = "copy_geoms"
    /\ db' = [db EXCEPT !.tables[arg.prefix] = CopyGeoms(@, csv.edge_geom_csv)]
    /\ log' = Append(log, [req |-> "copy", table |-> "edge_geometry"])
    /\ pc' = "copy_edges"
    /\ UNCHANGED <<network, called, op, args, history, G, loc, error, result, csv>>

CsvCopyEdges ==
    /\ op = "csv" /\ pc = "copy_edges"
    /\ LET t == db.tables[arg.prefix]
       IN  /\ log' = Append(log, [req |-> "copy", table |-> "edges"])
           /\ IF CopyOk(t.edgeCols, csv.edge_csv, "EdgeID") /\ CopyTypesOk(t, csv.edge_csv)
              THEN /\ db' = [db EXCEPT !.tables[arg.prefix] = CopyEdges(t, csv.edge_csv)]
                   /\ pc' = "views"
                   /\ UNCHANGED <<op, error, history>>
              ELSE Raise("COPY failed") /\ UNCHANGED db
    /\ UNCHANGED <<network, called, args, G, loc, result, csv>>

CsvViews ==
    /\ op = "csv" /\ pc = "views"
    /\ log' = log \o <<[req |-> "create_node_view", prefix |-> arg.prefix],
                       [req |-> "create_edge_view", prefix |-> arg.prefix]>>
    /\ Return
    /\ UNCHANGED <<network, db, called, op, args, G, loc, error, result, csv>>

Next ==
    \/ \E prefix \in Names, overwrite \in BOOLEAN :
          \/ CallPgnet(prefix, 27700, overwrite, "geom")
          \/ \E key \in {"geom", "name"} : CallPgnet(prefix, -1, overwrite, key)
    \/ PgnetCreateTables
    \/ PgnetRegister
    \/ PgnetFromNode
    \/ PgnetToNode
    \/ PgnetInsertEdge
    \/ PgnetViews
    \/ \E prefix \in Names, overwrite \in BOOLEAN : CallCsv(prefix, overwrite)
    \/ CsvCreateTables
    \/ CsvHeader
    \/ CsvRegister
    \/ CsvStage
    \/ CsvStageFails
    \/ CsvCopyNodes
    \/ CsvCopyGeoms
    \/ CsvCopyEdges
    \/ CsvViews
    \/ \E prefix \in Names : CallRead(prefix)
    \/ ReadGraphTable
    \/ ReadEdges
    \/ ReadNodes

Spec == Init /\ [][Next]_vars

(***************************************************************************)
(* Two write sessions on the same storage.  update_graph_table is two      *)
(* statements, the insert of the Graphs row and the select of the highest  *)
(* GraphID; a second session, which writes a network of another name, may  *)
(* add its own Graphs row between the two.                                 *)
(***************************************************************************)
OtherName == "Other"
\* nisql.add_graph_record(self.prefix) of update_graph_table
PgnetRegisterInsert ==
    /\ op = "pgnet" /\ pc = "register"
    /\ db' = AddGraphRecord(db, arg.prefix, FALSE, FALSE)
    /\ log' = Append(log, [req |-> "add_graph_record", prefix |-> arg.prefix,
                           directed |-> FALSE, multigraph |-> FALSE])
    /\ pc' = "register_select"
    /\ UNCHANGED <<network, called, op, args, history, G, loc, error, result, csv>>
\* the other session's add_graph_record
OtherSessionRegisters ==
    /\ op = "pgnet" /\ pc = "register_select"
    /\ \A r \in Range(db.graphs) : r.GraphName # OtherName
    /\ db' = AddGraphRecord(db, OtherName, FALSE, FALSE)
    /\ UNCHANGED <<network, called, op, pc, args, history, G, loc, error, log, result, csv>>
\* SELECT "GraphID" FROM "Graphs" ORDER BY "GraphID" DESC LIMIT 1, and the
\* entry into the loop over the edges
PgnetRegisterSelect ==
    /\ op = "pgnet" /\ pc = "register_select"
    /\ LET edges == GEdges(G)
       IN  /\ loc' = [loc EXCEPT !.graph_id = HighestGraphID(db), !.edges = edges, !.i = 1]
           /\ pc' = IF edges = <<>> THEN "views" ELSE "from"
    /\ UNCHANGED <<network, db, called, op, args, history, G, error, log, result, csv>>

NextInterleaved ==
    \/ \E prefix \in Names, overwrite \in BOOLEAN :
          \/ CallPgnet(prefix, 27700, overwrite, "geom")
          \/ \E key \in {"geom", "name"} : CallPgnet(prefix, -1, overwrite, key)
    \/ PgnetCreateTables
    \/ PgnetRegisterInsert
    \/ OtherSessionRegisters
    \/ PgnetRegisterSelect
    \/ PgnetFromNode
    \/ PgnetToNode
    \/ PgnetInsertEdge
    \/ PgnetViews

SpecInterleaved == Init /\ [][NextInterleaved]_vars

(***************************************************************************)
(* Properties                                                              *)
(***************************************************************************)
\* G.number_of_nodes() and G.number_of_edges(), of the caller's graph and of
\* the graph read.pgnet returns
NumberOfNodes(g) == Cardinality(DOMAIN g.node)
NumberOfEdges(g) == Len(GEdges(g))
RNumberOfNodes(r) == Cardinality(DOMAIN r.node)
RNumberOfEdges(r) == Cardinality(DOMAIN r.edge)

\* the keys the schema reserves: they are left out when attributes are compared
SchemaKeys == ReservedKeys \cup {"GraphID", "Node_F_ID", "Node_T_ID", "Edge_GeomID"}
\* the attributes the caller gave: no reserved key, no null value
UserAttrs(d) == [x \in {y \in DOMAIN d \ SchemaKeys : d[y] # NoneV} |-> d[x]]
\* every non-reserved attribute of `given` has the same value in `stored`
SameUserAttrs(given, stored) ==
    \A x \in DOMAIN given \ SchemaKeys : Get(stored, x) = given[x]

\* the network `name` holds what a write.pgnet call put there
PgnetWrote(name) == history.owner[name] = "pgnet"
PgnetSpatial(name) == PgnetWrote(name) /\ args["pgnet"].srs # -1
\* the id of the Node row of node n of the caller's graph, in the tables t
\* that write.pgnet filled
NodeIdOf(t, n) ==
    IF args["pgnet"].srs # -1
    THEN NodeGeometryEqualityCheck(t, NodeGeometry(n, network.node[n]))
    ELSE NodeAttributeEqualityCheck(t, args["pgnet"].node_equality_key,
                                    Get(network.node[n], args["pgnet"].node_equality_key))
\* the requests of one kind in the log
Requests(kind) == SelectSeq(log, LAMBDA r : r.req = kind)

\* ---- C1 ----
\* read.pgnet has returned the network that a completed write.pgnet wrote
RoundTripCase ==
    /\ op = "read" /\ pc = "done"
    /\ history.outcome["pgnet"] = "done"
    /\ PgnetWrote(args["read"].prefix)
\* C1: a graph written with write.pgnet and read back with read.pgnet under
\* the same name has the same number of nodes and of edges, and every edge
\* is read back between the rows of its end points with the same values for
\* all its non-reserved attributes.
RoundTrip ==
    RoundTripCase =>
        LET t == db.tables[args["read"].prefix]
            edges == GEdges(network)
        IN  /\ RNumberOfNodes(result) = NumberOfNodes(network)
            /\ RNumberOfEdges(result) = NumberOfEdges(network)
            /\ \A i \in 1..Len(edges) :
                  LET e == edges[i]
                      ek == EdgeKey(result, NodeIdOf(t, e.u), NodeIdOf(t, e.v),
                                    IF result.multigraph THEN Get(network.heap[e.d], "uuid")
                                    ELSE NoneV)
                  IN  /\ ek \in DOMAIN result.edge
                      /\ SameUserAttrs(network.heap[e.d], result.edge[ek])

\* ---- C2 ----
\* C2: the Nodes table of a spatial network written by write.pgnet holds at
\* most one row per node geometry, the writer has inserted exactly the rows
\* the table holds, and the id it holds for an end point it has resolved is
\* the id of the one row with that end point's geometry.
NodeDedup ==
    \A name \in Names : PgnetSpatial(name) =>
        LET t == db.tables[name]
        IN  /\ \A i, j \in 1..Len(t.nodes) : t.nodes[i].geom = t.nodes[j].geom => i = j
            /\ op = "pgnet" => Len(Requests("insert_node")) = Len(t.nodes)
            /\ (op = "pgnet" /\ pc \in {"to", "edge"}) =>
                  loc.node_f_id = NodeIdOf(t, loc.edges[loc.i].u) /\ loc.node_f_id # NoneV
            /\ (op = "pgnet" /\ pc = "edge") =>
                  loc.node_t_id = NodeIdOf(t, loc.edges[loc.i].v) /\ loc.node_t_id # NoneV
\* two edges that share an end point have been written: three Node rows
NodeDedupWitness ==
    /\ op = "pgnet" /\ pc = "done" /\ PgnetSpatial(arg.prefix)
    /\ Len(loc.edges) = 2
    /\ Len(db.tables[arg.prefix].nodes) = 3

\* ---- C3 ----
\* the geometry of the k-th edge write.pgnet writes
GeometryOfEdge(k) == EdgeGeometry(loc.edges[k].u, loc.edges[k].v, G.heap[loc.edges[k].d])
RegisteredGraphID(name) == IntV(Last(GraphRows(db, name)).GraphID)
\* the k-th Edge row of t carries the ids of the rows of the end points of
\* the k-th edge written, and the id the graph was registered with
EdgeRowIds(t, name, k) ==
    /\ Get(t.edges[k].attrs, "Node_F_ID") = NodeIdOf(t, loc.edges[k].u)
    /\ Get(t.edges[k].attrs, "Node_T_ID") = NodeIdOf(t, loc.edges[k].v)
    /\ Get(t.edges[k].attrs, "Node_F_ID") # NoneV
    /\ Get(t.edges[k].attrs, "Node_T_ID") # NoneV
    /\ Get(t.edges[k].attrs, "GraphID") = RegisteredGraphID(name)
\* C4: every Edge row write.pgnet inserts for a Graph or DiGraph carries the
\* ids of the Node rows of the edge's two end points, the id of an existing
\* Edge_Geometry row and the id the graph was registered with; every Node
\* row carries that graph id.
ForeignKeys ==
    \A name \in Names : (PgnetWrote(name) /\ ~args["pgnet"].multigraph) =>
        LET t == db.tables[name]
        IN  /\ \A k \in 1..Len(t.edges) :
                  /\ EdgeRowIds(t, name, k)
                  /\ \E g \in Range(t.geoms) :
                        Get(t.edges[k].attrs, "Edge_GeomID") = IntV(g.GeomID)
            /\ \A k \in 1..Len(t.nodes) :
                  Get(t.nodes[k].attrs, "GraphID") = RegisteredGraphID(name)
            /\ (op = "pgnet" /\ pc \notin {"create", "register"}) =>
                  loc.graph_id = RegisteredGraphID(name)
\* a simple graph of two edges has been written
ForeignKeysWitness ==
    /\ op = "pgnet" /\ pc = "done" /\ ~arg.multigraph
    /\ Len(db.tables[arg.prefix].edges) = 2
    /\ Len(db.tables[arg.prefix].nodes) = 3

\* ---- C5 ----
\* C5: every Edge row write.pgnet inserts for a MultiGraph or MultiDiGraph
\* carries the ids of the Node rows of the edge's end points and the graph
\* id, as for a simple graph, and the edge's uuid.
MultigraphEdgeIds ==
    \A name \in Names : (PgnetWrote(name) /\ args["pgnet"].multigraph) =>
        LET t == db.tables[name]
        IN  \A k \in 1..Len(t.edges) :
                /\ EdgeRowIds(t, name, k)
                /\ Get(t.edges[k].attrs, "uuid") = Get(G.heap[loc.edges[k].d], "uuid")

\* ---- C6 ----
\* C6: write.pgnet inserts one Edge row per edge of a multigraph, each with
\* the uuid and the attribute values of its own edge, so that two edges
\* between the same ordered pair of nodes are two rows.
MultigraphUniqueness ==
    \A name \in Names : (PgnetWrote(name) /\ args["pgnet"].multigraph) =>
        LET t == db.tables[name]
            edges == GEdges(network)
        IN  /\ Len(t.edges) <= Len(edges)
            /\ (history.outcome["pgnet"] = "done") => Len(t.edges) = Len(edges)
            /\ \A k \in 1..Len(t.edges) :
                  /\ Get(t.edges[k].attrs, "uuid") = network.heap[edges[k].d]["uuid"]
                  /\ SameUserAttrs(network.heap[edges[k].d], t.edges[k].attrs)
            /\ \A j, k \in 1..Len(t.edges) :
                  Get(t.edges[j].attrs, "uuid") = Get(t.edges[k].attrs, "uuid") => j = k
\* a multigraph with two edges between the same ordered pair of nodes, of
\* different attribute values, has been written
MultigraphUniquenessWitness ==
    /\ op = "pgnet" /\ pc = "done" /\ arg.multigraph
    /\ Len(loc.edges) = 2
    /\ loc.edges[1].u = loc.edges[2].u /\ loc.edges[1].v = loc.edges[2].v
    /\ Get(network.heap[loc.edges[1].d], "a") # Get(network.heap[loc.edges[2].d], "a")
    /\ Len(db.tables[arg.prefix].edges) = 2

\* ---- C7 ----
\* C7: the registration request of a writer called with directed = d and
\* multigraph = m carries Directed = d and MultiGraph = m, and read.pgnet of
\* the network builds the graph class of (d, m).
GraphTypeFlags ==
    /\ op \in {"pgnet", "csv"} =>
          \A i \in 1..Len(log) :
              log[i].req = "add_graph_record" =>
                  log[i].directed = arg.directed /\ log[i].multigraph = arg.multigraph
    /\ (op = "read" /\ pc \in {"edges", "nodes", "done"}
        /\ history.owner[arg.prefix] \in {"pgnet", "csv"}) =>
          /\ result.directed = args[history.owner[arg.prefix]].directed
          /\ result.multigraph = args[history.owner[arg.prefix]].multigraph

\* ---- C8 ----
\* a writer is about to create the tables of a network that exists, and
\* overwrite is not set
ConflictCase ==
    /\ op \in {"pgnet", "csv"} /\ pc = "create"
    /\ db.tables[arg.prefix].exists
    /\ ~arg.overwrite
\* C8: when the network exists and overwrite is not set, the writer raises
\* Error('Network already exists.') having asked only for the creation of
\* the tables: no delete, no registration, no insert, and the database is
\* as it was.
SchemaConflict ==
    [][ConflictCase =>
          /\ pc' = "failed"
          /\ error' = "Network already exists."
          /\ db' = db
          /\ \A i \in 1..Len(log') : log'[i].req = "create_network_tables"]_vars
\* the bulk writer has met the network the row-by-row writer wrote
SchemaConflictWitness ==
    /\ op = "csv" /\ pc = "failed" /\ error = "Network already exists."
    /\ PgnetWrote(arg.prefix)
    /\ Len(db.tables[arg.prefix].edges) > 0

\* ---- C9 ----
\* C9: read.pgnet of a name without a row in Graphs ends with the module's
\* Error saying that the network cannot be found in the Graph table, and
\* read.pgnet of a registered network without edges returns an empty graph
\* of the class the network was written with.
NetworkNotFound ==
    /\ (op = "read" /\ pc \in {"done", "failed"} /\ GraphRows(db, arg.prefix) = <<>>) =>
          pc = "failed" /\ error = "Can't find network in Graph table"
    /\ (op = "read" /\ pc \in {"done", "failed"} /\ GraphRows(db, arg.prefix) # <<>>
        /\ db.tables[arg.prefix].edges = <<>>) =>
          /\ pc = "done"
          /\ RNumberOfEdges(result) = 0

\* ---- C10 ----
\* read.pgnet of the network `name`, as a function of the database
ReadBack(name) ==
    LET rows == GraphRows(db, name)
        t == db.tables[name]
        g0 == NewGraph(Last(rows).Directed, Last(rows).MultiGraph)
    IN  ReadPgnetNodes(ReadPgnetEdges(g0, t, EdgeView(t), 1).g, t, 1)
\* a node of a graph read back, named by its geometry instead of its id
NodeName(r, n) == IF n \in DOMAIN r.node THEN Get(r.node[n], "Wkt") ELSE NoneV
\* the edges of a graph read back, up to the renaming of the node ids
LogicalEdges(r) ==
    {[ends |-> IF r.directed THEN <<NodeName(r, ek.ends[1]), NodeName(r, ek.ends[2])>>
               ELSE {NodeName(r, n) : n \in ek.ends},
      key |-> ek.key,
      attrs |-> UserAttrs(r.edge[ek])] : ek \in DOMAIN r.edge}
\* both writers have written the caller's graph, each under its own name
BothWritten ==
    /\ Idle
    /\ history.outcome["pgnet"] = "done" /\ history.outcome["csv"] = "done"
    /\ args["pgnet"].prefix # args["csv"].prefix
    /\ args["pgnet"].srs # -1
\* C10: the network write.pgnet_via_csv writes and the one write.pgnet
\* writes for the same spatial graph read back as the same logical graph:
\* as many nodes, as many edges, the same end points for each edge up to
\* the renaming of ids and the same non-reserved attribute values.
BulkEquivalence ==
    BothWritten =>
        LET a == ReadBack(args["pgnet"].prefix)
            b == ReadBack(args["csv"].prefix)
        IN  /\ RNumberOfNodes(a) = RNumberOfNodes(b)
            /\ RNumberOfEdges(a) = RNumberOfEdges(b)
            /\ LogicalEdges(a) = LogicalEdges(b)

\* ---- C11 ----
\* the geometry, as text, of node n of the graph handed to the bulk writer
NodeWkt(n) == ExportToWkt(NodeGeometry(n, G.node[n]))
\* the id the bulk writer assigned to a geometry when it first met it
FirstId(wkt) == csv.node_ids[IndexOf(csv.node_coords, wkt, 1)]
\* C11: in write.pgnet_via_csv a node geometry is given one id, two
\* geometries never share an id, every node record carries the id given to
\* its geometry, and every edge record names each end point by the id its
\* geometry was first given.
BulkNodeIds ==
    (op = "csv") =>
        /\ Len(csv.node_ids) = Len(csv.node_coords)
        /\ \A i, j \in 1..Len(csv.node_coords) :
              (csv.node_coords[i] = csv.node_coords[j] \/ csv.node_ids[i] = csv.node_ids[j])
                  => i = j
        /\ Len(csv.node_csv) = Len(csv.node_ids)
        /\ \A j \in 1..Len(csv.node_csv) :
              /\ csv.node_csv[j][2] = csv.node_coords[j]
              /\ csv.node_csv[j][3] = IntV(csv.node_ids[j])
        /\ \A k \in 1..Len(csv.edge_csv) :
              /\ NodeWkt(csv.edges[k].u) \in Range(csv.node_coords)
              /\ NodeWkt(csv.edges[k].v) \in Range(csv.node_coords)
              /\ csv.edge_csv[k][1] = IntV(FirstId(NodeWkt(csv.edges[k].u)))
              /\ csv.edge_csv[k][2] = IntV(FirstId(NodeWkt(csv.edges[k].v)))
\* the pass has staged a second edge whose end points were both met before
BulkNodeIdsWitness ==
    /\ op = "csv" /\ pc = "copy_nodes"
    /\ Len(csv.edge_csv) = 2
    /\ Len(csv.node_ids) = 2
    /\ csv.edges[2].u # csv.edges[2].v

\* ---- C12 ----
\* the tables of the bulk copies requested so far, in the order of the requests
CopiesIssued == MapSeq(LAMBDA r : r.table, Requests("copy"))
\* C12: every edge record staged by write.pgnet_via_csv finds, among the
\* records staged no later than itself, a node record for its Node_F_ID,
\* one for its Node_T_ID and a geometry record for its Edge_GeomID; the
\* copies are requested in the order nodes, edge geometry, edges.
BulkOrdering ==
    (op = "csv") =>
        /\ \A k \in 1..Len(csv.edge_csv) :
              /\ \E j \in 1..Len(csv.node_csv) : csv.node_csv[j][3] = csv.edge_csv[k][1]
              /\ \E j \in 1..Len(csv.node_csv) : csv.node_csv[j][3] = csv.edge_csv[k][2]
              /\ \E j \in 1..Len(csv.edge_geom_csv) :
                    csv.edge_geom_csv[j][2] = csv.edge_csv[k][4]
        /\ CopiesIssued \in {<<>>, <<"nodes">>, <<"nodes", "edge_geometry">>,
                             <<"nodes", "edge_geometry", "edges">>}
\* the three copies of a pass of two edges have been requested
BulkOrderingWitness ==
    /\ op = "csv" /\ pc = "done"
    /\ Len(csv.edge_csv) = 2
    /\ CopiesIssued = <<"nodes", "edge_geometry", "edges">>

\* ---- C13 ----
\* the column-creation requests of the call, and those for one column
FieldRequests(table, col) ==
    SelectSeq(Requests("create_field"), LAMBDA r : r.table = table /\ r.col = col)
\* C13: during a write.pgnet call a key registered in the field registry of
\* the node or of the edge table keeps its registered type at every later
\* step, and at most one column creation is requested for a key and table.
SchemaMonotone ==
    [][(op = "pgnet" /\ ~Idle) =>
          /\ \A K \in DOMAIN loc.node_fields :
                K \in DOMAIN loc.node_fields' /\ loc.node_fields'[K] = loc.node_fields[K]
          /\ \A K \in DOMAIN loc.edge_fields :
                K \in DOMAIN loc.edge_fields' /\ loc.edge_fields'[K] = loc.edge_fields[K]
          /\ \A K \in DOMAIN loc.node_fields' : Len(FieldRequests("nodes", K)') <= 1
          /\ \A K \in DOMAIN loc.edge_fields' : Len(FieldRequests("edges", K)') <= 1]_vars
\* an edge has brought an integer for a key registered as a real
SchemaMonotoneWitness ==
    /\ op = "pgnet" /\ pc = "done"
    /\ Has(loc.edge_fields, "a") /\ loc.edge_fields["a"] = "OFTReal"
    /\ \E r \in Range(Requests("insert_edge")) :
          Has(r.row.attrs, "a") /\ r.row.attrs["a"].k = "int"

\* ---- C14 ----
\* the column type that goes with the runtime type of a value
ColumnTypeOf(cell) ==
    IF cell.k = "int" THEN "OFTInteger" ELSE IF cell.k = "float" THEN "OFTReal" ELSE "OFTString"
\* the nodes write.pgnet has handed to create_attribute_map, in order
VisitedNodes ==
    LET n == IF pc = "to" THEN 2 * loc.i - 1
             ELSE IF pc = "edge" THEN 2 * loc.i
             ELSE 2 * (loc.i - 1)
    IN  [j \in 1..n |-> IF j % 2 = 1 THEN loc.edges[(j + 1) \div 2].u
                        ELSE loc.edges[(j + 1) \div 2].v]
\* the edges it has handed to create_attribute_map, in order
VisitedEdges == [k \in 1..(loc.i - 1) |-> G.heap[loc.edges[k].d]]
\* the value of key K in the first map of a sequence that holds K
FirstValue(maps, K) ==
    maps[CHOOSE j \in 1..Len(maps) :
            /\ Has(maps[j], K)
            /\ \A i \in 1..(j - 1) : ~Has(maps[i], K)][K]
\* the registry holds K with the type of its first value, and one column
\* creation with that type was requested for it
InferredFromFirst(table, registry, base, maps) ==
    \A K \in DOMAIN registry \ DOMAIN base :
        /\ \E j \in 1..Len(maps) : Has(maps[j], K)
        /\ registry[K] = ColumnTypeOf(FirstValue(maps, K))
        /\ Len(FieldRequests(table, K)) = 1
        /\ FieldRequests(table, K)[1].type = registry[K]
\* C14: a key that create_attribute_map meets for the first time is
\* registered as an integer column when its value is an integer, a real
\* column when it is a float and a string column otherwise, and exactly one
\* column creation with that type is requested.
TypeInference ==
    (op = "pgnet" /\ pc \in {"from", "to", "edge", "views", "done"}) =>
        /\ InferredFromFirst("nodes", loc.node_fields, NodeFields0,
                             MapSeq(LAMBDA n : G.node[n], VisitedNodes))
        /\ InferredFromFirst("edges", loc.edge_fields, EdgeFields0, VisitedEdges)
\* columns of the three types have been registered
TypeInferenceWitness ==
    /\ op = "pgnet" /\ pc = "done"
    /\ Has(loc.edge_fields, "a") /\ loc.edge_fields["a"] = "OFTReal"
    /\ Has(loc.edge_fields, "b") /\ loc.edge_fields["b"] = "OFTInteger"
    /\ Has(loc.node_fields, "name") /\ loc.node_fields["name"] = "OFTString"

\* ---- C15 ----
\* C15: every value write.pgnet sends to storage for a registered key has
\* the type the key was registered with: a later value of another runtime
\* type is coerced to it.
Coercion ==
    (op = "pgnet") =>
        /\ \A r \in Range(Requests("insert_edge")) :
              \A K \in DOMAIN r.row.attrs \cap DOMAIN loc.edge_fields :
                  ColumnTypeOf(r.row.attrs[K]) = loc.edge_fields[K]
        /\ \A r \in Range(Requests("insert_node")) :
              \A K \in DOMAIN r.row.attrs \cap DOMAIN loc.node_fields :
                  ColumnTypeOf(r.row.attrs[K]) = loc.node_fields[K]

\* ---- C16 ----
\* the keys the schema derives and never stores as given
DerivedKeys == {"Wkb", "Wkt", "Json", "NodeID", "EdgeID", "GeomID", "nodeid", "edgeid",
                "geomid", "viewid", "view_id", "ViewID", "View_ID"}
\* every key of `given` that is not derived is in `stored` with its value
KeepsOtherKeys(given, stored) ==
    \A K \in DOMAIN given \ DerivedKeys : Has(stored, K) /\ stored[K] = given[K]
\* C16: the maps write.pgnet sends to storage hold none of the keys Wkb,
\* Wkt, Json, NodeID, EdgeID, GeomID or their lower-case and view variants,
\* no column is created for such a key, and every other key of a node's or
\* an edge's attribute map is sent with its value.
ReservedKeysNotPersisted ==
    (op = "pgnet") =>
        /\ \A r \in Range(Requests("create_field")) : r.col \notin DerivedKeys
        /\ \A r \in Range(Requests("insert_node")) : DOMAIN r.row.attrs \cap DerivedKeys = {}
        /\ \A r \in Range(Requests("insert_edge")) : DOMAIN r.row.attrs \cap DerivedKeys = {}
        /\ \A k \in 1..Len(Requests("insert_edge")) :
              KeepsOtherKeys(network.heap[loc.edges[k].d], Requests("insert_edge")[k].row.attrs)
        /\ PgnetSpatial(arg.prefix) =>
              \A j \in 1..Len(VisitedNodes) :
                  \A row \in Range(db.tables[arg.prefix].nodes) :
                      row.geom = NodeGeometry(VisitedNodes[j], G.node[VisitedNodes[j]]) =>
                          KeepsOtherKeys(G.node[VisitedNodes[j]], row.attrs)

\* ---- C17 ----
\* write.pgnet runs without geometry and has not failed
AspatialRun ==
    op = "pgnet" /\ arg.srs = -1 /\ pc \in {"from", "to", "edge", "views", "done"}
\* the Node rows that hold `value` under the node equality key
RowsWithKeyValue(t, value) ==
    {i \in 1..Len(t.nodes) : Get(t.nodes[i].attrs, arg.node_equality_key) = value}
\* C17: in a write.pgnet call with srs = -1 whose node equality key is in
\* the attributes of the nodes, every node visited has exactly one Node row
\* with its key value, so there are as many Node rows as distinct key values
\* among the nodes visited, although every row has the same empty point.
AspatialIdentity ==
    AspatialRun =>
        LET t == db.tables[arg.prefix]
            values == {G.node[VisitedNodes[j]][arg.node_equality_key] :
                          j \in 1..Len(VisitedNodes)}
        IN  /\ \A val \in values : Cardinality(RowsWithKeyValue(t, val)) = 1
            /\ Len(t.nodes) = Cardinality(values)
            /\ \A i \in 1..Len(t.nodes) : t.nodes[i].geom = PointEmpty
\* two nodes with different key values, each visited twice, have two rows
AspatialIdentityWitness ==
    /\ AspatialRun /\ pc = "done" /\ arg.node_equality_key = "name"
    /\ Len(loc.edges) = 2
    /\ Len(db.tables[arg.prefix].nodes) = 2

\* ---- C18 ----
\* C18: a write.pgnet call with srs = -1 and the default node equality key
\* 'geom', on a graph with edges all of whose end points carry a 'geom'
\* attribute, does not end with the error that the specified attribute does
\* not exist, and when it has ended it has inserted the graph's edges.
GeomPlaceholder ==
    (/\ op = "pgnet" /\ arg.srs = -1 /\ arg.node_equality_key = "geom"
     /\ pc \in {"done", "failed"}
     /\ GEdges(network) # <<>>
     /\ \A k \in 1..Len(GEdges(network)) :
           /\ Has(network.node[GEdges(network)[k].u], "geom")
           /\ Has(network.node[GEdges(network)[k].v], "geom"))
    => /\ error # "The specified attribute does not exist"
       /\ pc = "done" => Len(Requests("insert_edge")) = Len(GEdges(network))

\* ---- C19 ----
\* C19: when write.pgnet has returned, the attribute map of every end point
\* of an edge holds the NodeID of its Node row, and the attribute map of
\* every edge holds the Node_F_ID, Node_T_ID and GraphID of its Edge row.
IdentifierWriteBack ==
    (op = "pgnet" /\ pc = "done") =>
        LET t == db.tables[arg.prefix]
        IN  \A k \in 1..Len(loc.edges) :
                LET e == loc.edges[k]
                IN  /\ Get(G.node[e.u], "NodeID") = NodeIdOf(t, e.u)
                    /\ Get(G.node[e.v], "NodeID") = NodeIdOf(t, e.v)
                    /\ Get(G.heap[e.d], "Node_F_ID") = NodeIdOf(t, e.u)
                    /\ Get(G.heap[e.d], "Node_T_ID") = NodeIdOf(t, e.v)
                    /\ Get(G.heap[e.d], "GraphID") = loc.graph_id

\* ---- C20 ----
\* the edge geometries read.pgnet_edges is able to turn into an edge
ReadableGeometry(geom) ==
    \/ geom.type \in {"LINESTRING", "MULTILINESTRING"}
    \/ geom.type = "GEOMETRYCOLLECTION" /\ geom.c = <<>>
\* C20: read.pgnet gets past the edges only when every row of the edge view
\* has a geometry it can read: a row with another geometry ends the read
\* with an error and is never skipped.
UnsupportedGeometryFatal ==
    (op = "read" /\ pc \in {"nodes", "done"}) =>
        \A r \in Range(EdgeView(db.tables[arg.prefix])) :
            ReadableGeometry(GeomOf(db.tables[arg.prefix], r))

\* ---- C21 ----
\* write.pgnet has failed while it was working through the edges
FailedInEdges == op = "pgnet" /\ pc = "failed" /\ loc.edges # <<>>
\* C21: when write.pgnet has failed while processing an edge, the tables
\* of the network and its Graphs row still exist, every Node, Edge_Geometry
\* and Edge row the call inserted is still in storage, and the call issued no
\* delete after it registered the graph.
NoRollback ==
    FailedInEdges =>
        LET t == db.tables[arg.prefix]
        IN  /\ t.exists
            /\ \E r \in Range(db.graphs) : IntV(r.GraphID) = loc.graph_id
            /\ \A r \in Range(Requests("insert_node")) : r.row \in Range(t.nodes)
            /\ \A r \in Range(Requests("insert_geom")) : r.row \in Range(t.geoms)
            /\ \A r \in Range(Requests("insert_edge")) : r.row \in Range(t.edges)
            /\ \A i, j \in 1..Len(log) :
                  (log[i].req = "add_graph_record" /\ i < j) => log[j].req # "delete_network"
\* the insert of the second edge has failed and the first edge's rows remain
NoRollbackWitness ==
    /\ FailedInEdges /\ error = "RuntimeError"
    /\ loc.i = 2
    /\ Len(Requests("insert_edge")) = 1
    /\ Len(db.tables[arg.prefix].nodes) >= 2

\* ---- C22 ----
\* C22: an INSERT of an Edge row that fails is issued once: write.pgnet
\* never sends the statement that failed a second time.
NoRetry ==
    (op = "pgnet") => Len(Requests("insert_edge_error")) <= 1

\* ---- C23 ----
\* the step from one position of write.pgnet to the next
WriterStep(from, to) ==
    \/ to = "failed"
    \/ from = "create" /\ to = "register"
    \/ from = "register" /\ to \in {"from", "views"}
    \/ from = "from" /\ to = "to"
    \/ from = "to" /\ to = "edge"
    \/ from = "edge" /\ to \in {"from", "views"}
    \/ from = "views" /\ to = "done"
\* the requests that write a row of the network
InsertRequests == {"insert_node", "insert_geom", "insert_edge", "insert_edge_error"}
\* the order of the requests in the log of the call
RequestOrder ==
    \A j \in 1..Len(log) :
        /\ log[j].req \in InsertRequests =>
              /\ loc.graph_id # NoneV
              /\ \E i \in 1..(j - 1) : log[i].req = "add_graph_record"
        /\ log[j].req = "add_graph_record" =>
              /\ \E i \in 1..(j - 1) : log[i].req = "create_network_tables"
              /\ \A i \in (j + 1)..Len(log) :
                    log[i].req \notin {"create_network_tables", "delete_network"}
        /\ log[j].req = "delete_network" =>
              /\ j > 1 /\ log[j - 1].req = "create_network_tables"
              /\ j < Len(log) /\ log[j + 1].req = "create_network_tables"
        /\ log[j].req \in {"create_node_view", "create_edge_view"} =>
              \A i \in (j + 1)..Len(log) : log[i].req \notin InsertRequests
        /\ log[j].req = "insert_edge" =>
              /\ Get(log[j].row.attrs, "Edge_GeomID") # NoneV
              /\ \E g \in Range(db.tables[arg.prefix].geoms) :
                    IntV(g.GeomID) = log[j].row.attrs["Edge_GeomID"]
\* C23: write.pgnet goes from table creation to graph registration, then for
\* each edge in turn from node, to node, edge geometry and Edge row, then to
\* the views; no row is inserted before the graph id is known, an Edge row
\* is inserted only with both node ids and its geometry id known, and an
\* edge is begun only when the one before it is finished.
WriterOrder ==
    [][(op' = "pgnet" /\ ~Idle') =>
          /\ (op = "pgnet" /\ ~Idle) => WriterStep(pc, pc')
          /\ RequestOrder'
          /\ pc' \in {"to", "edge"} => loc.node_f_id' # NoneV
          /\ pc' = "edge" => loc.node_t_id' # NoneV
          /\ pc' \in {"from", "to", "edge"} =>
                /\ loc.i' \in 1..Len(loc.edges')
                /\ Len(Requests("insert_edge")') = loc.i' - 1
          /\ (pc = "edge" /\ pc' = "from") => loc.i' = loc.i + 1
          /\ (pc \in {"from", "to"} /\ pc' \in {"to", "edge"}) => loc.i' = loc.i]_vars
\* a call that has written two edges and created the views
WriterOrderWitness ==
    /\ op = "pgnet" /\ pc = "done"
    /\ Len(Requests("insert_edge")) = 2
    /\ Len(Requests("create_edge_view")) = 1

\* ---- C24 ----
\* the end points of the edges staged so far, in the order they were met
StagedEndPoints ==
    [j \in 1..(2 * Len(csv.edge_csv)) |->
        IF j % 2 = 1 THEN NodeWkt(csv.edges[(j + 1) \div 2].u)
        ELSE NodeWkt(csv.edges[(j + 1) \div 2].v)]
\* where a geometry is first met among the staged end points
FirstMet(wkt) ==
    CHOOSE j \in 1..Len(StagedEndPoints) :
        /\ StagedEndPoints[j] = wkt
        /\ \A i \in 1..(j - 1) : StagedEndPoints[i] # wkt
StagedEdgeWkt(k) ==
    ExportToWkt(EdgeGeometry(csv.edges[k].u, csv.edges[k].v, GetEdgeData(G, csv.edges[k])))
\* C25: write.pgnet_via_csv stages one Edge_Geometry record for each
\* distinct edge geometry, and two edge records of the same geometry carry
\* the same Edge_GeomID.
BulkGeometryDedup ==
    (op = "csv") =>
        /\ Len(csv.edge_geom_csv)
               = Cardinality({StagedEdgeWkt(k) : k \in 1..Len(csv.edge_csv)})
        /\ \A k, l \in 1..Len(csv.edge_csv) :
              StagedEdgeWkt(k) = StagedEdgeWkt(l) => csv.edge_csv[k][4] = csv.edge_csv[l][4]

\* ---- C26 ----
\* the bulk writer has staged every edge and the call has ended
StagedAndEnded ==
    /\ op = "csv" /\ pc \in {"done", "failed"}
    /\ csv.edges # <<>> /\ Len(csv.edge_csv) = Len(csv.edges)
\* C26: under every network name a run of write.pgnet_via_csv that has
\* staged its records requests one bulk copy for the nodes table, one for
\* the edge geometry table and one for the edges table (unless a copy is
\* refused by storage), and inserts no node or edge row by row.
OneCopyPerTable ==
    (StagedAndEnded /\ error # "COPY failed") =>
        /\ CopiesIssued = <<"nodes", "edge_geometry", "edges">>
        /\ Requests("insert_node") = <<>>
        /\ Requests("insert_edge") = <<>>

\* ---- C27 ----
\* the node of the graph read that stands for a Node row holds the row's fields
CarriesNodeRow(r, t, row) ==
    /\ IntV(row.NodeID) \in DOMAIN r.node
    /\ \A c \in DOMAIN NodeViewFields(t, row) :
          Has(r.node[IntV(row.NodeID)], c)
          /\ r.node[IntV(row.NodeID)][c] = NodeViewFields(t, row)[c]
\* C27: read.pgnet reads the edges before the nodes; reading the nodes
\* changes neither the set of edges nor the attributes of any edge, and
\* leaves every node that has a Node row with the fields of that row.
ReaderMergeOrder ==
    [][(op = "read" /\ ~Idle) =>
          /\ pc = "graph_table" =>
                pc' \in {"edges", "failed"} /\ result'.edge = NewGraph(FALSE, FALSE).edge
                                            /\ result'.node = NewGraph(FALSE, FALSE).node
          /\ pc = "edges" => pc' \in {"nodes", "failed"}
          /\ pc = "nodes" =>
                /\ pc' = "done"
                /\ result'.edge = result.edge
                /\ \A row \in Range(db.tables[arg.prefix].nodes) :
                      CarriesNodeRow(result', db.tables[arg.prefix], row)]_vars
\* a network with an edge between two nodes that have attributes was read
ReaderMergeOrderWitness ==
    /\ op = "read" /\ pc = "done"
    /\ RNumberOfEdges(result) >= 1
    /\ \E n, m \in DOMAIN result.node :
          /\ n # m /\ Has(result.node[n], "name") /\ Has(result.node[m], "name")
          /\ result.node[n]["name"] # NoneV /\ result.node[m]["name"] # NoneV
          /\ \E ek \in DOMAIN result.edge : Has(result.edge[ek], "a")

\* ---- C28 ----
\* the Graphs row the write session itself has inserted, and the other session's
OwnGraphRows == {r \in Range(db.graphs) : r.GraphName = arg.prefix}
OtherGraphRows == {r \in Range(db.graphs) : r.GraphName = OtherName}
\* the write session has read its graph id back
GraphIdRead == op = "pgnet" /\ pc \in {"from", "to", "edge", "views", "done"}
\* C28: with no statement of another session between an insert and the
\* select of the highest id, the id read back is that of the row just
\* inserted: the GraphID of the session's own Graphs row, the NodeID of the
\* row holding the node's geometry, the GeomID of the row holding the
\* edge's geometry.  When the other session inserts its Graphs row between
\* the two statements, the session reads back the other session's GraphID,
\* although the two write networks of different names.
IdReadBack ==
    GraphIdRead =>
        LET t == db.tables[arg.prefix]
        IN  /\ OtherGraphRows = {} =>
                  \E r \in OwnGraphRows : IntV(r.GraphID) = loc.graph_id
            /\ OtherGraphRows # {} =>
                  /\ \E r \in OtherGraphRows : IntV(r.GraphID) = loc.graph_id
                  /\ \A r \in OwnGraphRows : IntV(r.GraphID) # loc.graph_id
            /\ (arg.srs # -1 /\ pc \in {"to", "edge"}) =>
                  \E r \in Range(t.nodes) :
                      /\ IntV(r.NodeID) = loc.node_f_id
                      /\ r.geom = NodeGeometry(loc.edges[loc.i].u, G.node[loc.edges[loc.i].u])
            /\ (arg.srs # -1 /\ pc = "edge") =>
                  \E r \in Range(t.nodes) :
                      /\ IntV(r.NodeID) = loc.node_t_id
                      /\ r.geom = NodeGeometry(loc.edges[loc.i].v, G.node[loc.edges[loc.i].v])
            /\ arg.srs # -1 =>
                  \A k \in 1..Len(Requests("insert_edge")) :
                      \E g \in Range(t.geoms) :
                          /\ IntV(g.GeomID) = Requests("insert_edge")[k].row.attrs["Edge_GeomID"]
                          /\ g.geom = EdgeGeometry(loc.edges[k].u, loc.edges[k].v,
                                                   GetEdgeData(G, loc.edges[k]))
\* a write that ended with the graph id of the other session's row
IdReadBackWitness ==
    /\ GraphIdRead /\ pc = "done"
    /\ Len(Requests("insert_edge")) >= 1
    /\ \E r \in OtherGraphRows : IntV(r.GraphID) = loc.graph_id

\* ---- C29 ----
\* the keys under which the adjacency structure holds the edges between u
\* and v of a multigraph
EdgeKeysOf(g, u, v) == DOMAIN g.heap[g.adj[u][v].v]
\* C29: while write.pgnet runs, the graph it was given keeps its nodes,
\* the neighbours of every node and, in a multigraph, the keys of the edges
\* between two nodes: the identifiers it writes back never show up as a
\* neighbour or as an edge key.
StructureUnchanged ==
    (op = "pgnet") =>
        /\ DOMAIN G.node = DOMAIN network.node
        /\ DOMAIN G.adj = DOMAIN network.adj
        /\ \A n \in DOMAIN network.adj :
              /\ DOMAIN G.adj[n] = DOMAIN network.adj[n]
              /\ network.multigraph =>
                    \A m \in DOMAIN network.adj[n] :
                        EdgeKeysOf(G, n, m) = EdgeKeysOf(network, n, m)

\* ---- C30 ----
\* C30: every node record staged by write.pgnet_via_csv has as many fields
\* as the node header (GraphID, geom, NodeID and the node specific keys),
\* and every edge record as many as the edge header (the five base fields
\* and the edge specific keys).
StagingAligned ==
    (op = "csv") =>
        /\ \A j \in 1..Len(csv.node_csv) :
              Len(csv.node_csv[j]) = 3 + Len(csv.node_table_specific_fieldnames)
        /\ \A k \in 1..Len(csv.edge_csv) :
              Len(csv.edge_csv[k]) = 5 + Len(csv.edge_table_specific_fieldnames)
====
